---- MODULE Spec2Model ----
(***************************************************************************)
(* Model of the tiered, confidence-gated detection loop of                 *)
(* backend/app/services/segmentation_service.py (SegmentationService) and  *)
(* of the plan assembly of backend/app/services/prompt_service.py          *)
(* (PromptPipeline).                                                       *)
(*                                                                         *)
(* Scores are integers in hundredths (0.85 is 85).  A text is a sequence   *)
(* of one-character strings so that strip() and lower() are computed.      *)
(* Box coordinates are integers or one of the non-finite floats.           *)
(***************************************************************************)
EXTENDS Integers, Sequences, FiniteSets, TLC

VARIABLES
    pc,                 \* position of the request inside process_segmentation
    raw_backend,        \* TRUE: the processor state may hold arrays of different lengths
    image_size,         \* <<width, height>> as returned by _get_image_dims
    prompt_sets,        \* List[PromptPlanSet] built by _build_prompt_sets
    obj_idx,            \* enumerate index of the outer loop (0-based)
    plan_pos,           \* number of plans of the current object already tried
    best_result,        \* Optional[DetectionResult]
    best_plan,          \* Optional[PromptPlan]
    best_score,         \* float, hundredths
    per_object_results, \* List[DetectionResult]
    prompt_info,        \* List[Dict]
    combined_result,    \* value returned by _run_tiered_detection, or None
    calls,              \* log of the calls made on sam3_model.detect
    observed,           \* top score of each call of the current object so far
    box,                \* raw box handed to _clamp_box
    bbox,               \* BoundingBox returned by _clamp_box, or None
    request,            \* the prompts and metadata objects the request supplied, or None
    args,               \* arguments of the helper being called, or None
    ret,                \* value the helper returned (or the exception it raised), or None
    _lock,              \* SAM3Model._lock: free, or held by one thread
    processor           \* SAM3Model.processor: what the shared backend holds

vars == <<pc, raw_backend, image_size, prompt_sets, obj_idx, plan_pos,
          best_result, best_plan, best_score, per_object_results,
          prompt_info, combined_result, calls, observed, box, bbox, request,
          args, ret, _lock, processor>>

\* the lock and the backend of the shared SAM3Model
lock_vars == <<_lock, processor>>

detect_vars == <<raw_backend, image_size, prompt_sets, obj_idx, plan_pos,
                 best_result, best_plan, best_score, per_object_results,
                 prompt_info, combined_result, calls, request>>

\* the variables of the helper calls
helper_vars == <<args, ret>>

\* Optional[...] values are records, None among them
None == [none |-> TRUE]

\* threading.Lock(): not held (line 35)
Unlocked == None

\* the processor before any image was set
IdleProcessor == [image |-> None, prompt |-> None, output |-> None]

\* no thread is inside SAM3Model.detect
NoDetectCall ==
    /\ _lock = Unlocked
    /\ processor = IdleProcessor

----------------------------------------------------------------------------
(* Bounds of the explored inputs *)

MaxPlans == 3
MaxRawPlans == 2
MaxDetections == 2

----------------------------------------------------------------------------
(* Program constants *)

MIN_CONFIDENCE_THRESHOLD == 40
EARLY_EXIT_THRESHOLD == 85

CORE == "core"
CORE_VISUAL == "core_visual"
CORE_VISUAL_SPATIAL == "core_visual_spatial"

PromptTier == {CORE, CORE_VISUAL, CORE_VISUAL_SPATIAL}

\* variant: the richer tier is rendered first
tier_order_reversed == <<CORE_VISUAL, CORE>>

tier_order == <<CORE, CORE_VISUAL>>

----------------------------------------------------------------------------
(* Small helpers on sequences *)

Range(s) == {s[i] : i \in DOMAIN s}

SeqsUpTo(S, lo, hi) == UNION {[1..n -> S] : n \in lo..hi}

RECURSIVE SeqMax(_)
SeqMax(s) ==
    IF Len(s) = 1 THEN s[1]
    ELSE LET m == SeqMax(Tail(s)) IN IF s[1] >= m THEN s[1] ELSE m

RECURSIVE Flatten(_)
Flatten(ss) == IF ss = <<>> THEN <<>> ELSE Head(ss) \o Flatten(Tail(ss))

Repeat(x, n) == [i \in 1..n |-> x]

----------------------------------------------------------------------------
(* Texts: str.lower() and str.strip() *)

Lower(c) == CASE c = "A" -> "a" [] c = "B" -> "b" [] c = "C" -> "c" [] OTHER -> c

LowerText(t) == [i \in DOMAIN t |-> Lower(t[i])]

RECURSIVE LStrip(_)
LStrip(t) == IF t # <<>> /\ Head(t) = " " THEN LStrip(Tail(t)) ELSE t

RECURSIVE RStrip(_)
RStrip(t) ==
    IF t # <<>> /\ t[Len(t)] = " " THEN RStrip(SubSeq(t, 1, Len(t) - 1)) ELSE t

Strip(t) == RStrip(LStrip(t))

T_object == <<"o", "b", "j", "e", "c", "t">>

----------------------------------------------------------------------------
(* PromptPipeline: assembling the plans of one object *)

PromptPlan(label, tier, text) == [label |-> label, tier |-> tier, text |-> text]

PromptPlanSet(label, plans) == [label |-> label, plans |-> plans]

\* the (tier, text) pairs in the order of the two nested for loops
TierCandidates(rendered) ==
    Flatten([i \in 1..Len(tier_order) |->
               [j \in 1..Len(rendered[tier_order[i]]) |->
                   [tier |-> tier_order[i], text |-> rendered[tier_order[i]][j]]]])

RECURSIVE DedupPlans(_, _, _)
DedupPlans(label, cands, seen_texts) ==
    IF cands = <<>> THEN <<>>
    ELSE LET c == Head(cands)
             normalized == LowerText(Strip(c.text))
         IN IF normalized = <<>> \/ normalized \in seen_texts
            THEN DedupPlans(label, Tail(cands), seen_texts)
            ELSE <<PromptPlan(label, c.tier, c.text)>>
                 \o DedupPlans(label, Tail(cands), seen_texts \cup {normalized})

\* obj: [label, rendered], rendered[tier] = _render_tier_variants(spec, tier)
BuildObjectPlans(obj) ==
    LET plans == DedupPlans(obj.label, TierCandidates(obj.rendered), {})
    IN PromptPlanSet(obj.label,
                     IF plans = <<>>
                     THEN <<PromptPlan(obj.label, CORE, T_object)>>
                     ELSE plans)

build_from_objects(objects) == [i \in 1..Len(objects) |-> BuildObjectPlans(objects[i])]

\* p: [prompt, freeform], freeform = build_freeform_variants(text)
RECURSIVE build_from_prompts(_)
build_from_prompts(prompts) ==
    IF prompts = <<>> THEN <<>>
    ELSE LET p == Head(prompts)
             text == Strip(p.prompt)
             variant_texts == IF p.freeform = <<>> THEN <<text>> ELSE p.freeform
             plans == [k \in 1..Len(variant_texts) |->
                          PromptPlan(text, CORE, variant_texts[k])]
         IN IF text = <<>>
            THEN build_from_prompts(Tail(prompts))
            ELSE <<PromptPlanSet(text, plans)>> \o build_from_prompts(Tail(prompts))

_build_prompt_sets(prompts, objects) ==
    build_from_prompts(prompts) \o build_from_objects(objects)

----------------------------------------------------------------------------
(* DetectionResult and the detection capability *)

DetectionResult(boxes_xyxy, scores, labels, masks) ==
    [boxes_xyxy |-> boxes_xyxy, scores |-> scores, labels |-> labels, masks |-> masks]

\* torch.zeros((0, 1, height, width)) and a mask batch of n items
MaskTensor(data, height, width) == [data |-> data, height |-> height, width |-> width]

\* SAM3Model.detect(image, [prompt]) on the state the processor left behind:
\* state = [boxes, scores, masks] with the number of boxes, the scores and the
\* number of masks; src tags every box and mask with the call that produced it
SAM3Model_detect(state, size, prompt, src) ==
    LET text == Strip(prompt)
        num_detections == Len(state.scores)
    IN IF text = <<>> \/ num_detections = 0
       THEN DetectionResult(<<>>, <<>>, <<>>, MaskTensor(<<>>, size[2], size[1]))
       ELSE DetectionResult(Repeat(src, state.boxes),
                            state.scores,
                            Repeat(text, num_detections),
                            MaskTensor(Repeat(src, state.masks), size[2], size[1]))

\* max_score of one call (line 436)
MaxScore(result) == IF Len(result.scores) > 0 THEN SeqMax(result.scores) ELSE 0

\* variant: a call that only equals the best so far replaces it
IsBetter_ties(max_score, best) == max_score >= best

IsBetter(max_score, best) == max_score > best

\* variant: the loop never exits early
IsEarlyExit_never(score) == FALSE

\* variant: the first acceptable detection ends the loop
IsEarlyExit_floor(score) == score >= MIN_CONFIDENCE_THRESHOLD

IsEarlyExit(score) == score >= EARLY_EXIT_THRESHOLD

\* variant: the floor itself is rejected
MeetsThreshold_strict(score) == score > MIN_CONFIDENCE_THRESHOLD

\* variant: no floor at all
MeetsThreshold_always(score) == TRUE

MeetsThreshold(score) == score >= MIN_CONFIDENCE_THRESHOLD

_relabel_detection(result, label) ==
    LET num == Len(result.scores)
    IN DetectionResult(result.boxes_xyxy, result.scores, Repeat(label, num), result.masks)

\* f"object_{obj_idx}"
ObjectId(idx) == <<"object_", idx>>

PromptInfoEntries(result, plan, idx) ==
    Repeat([tier |-> plan.tier, text |-> plan.text, label |-> plan.label,
            object_id |-> ObjectId(idx)],
           Len(result.boxes_xyxy))

_combine_detection_results(results, fallback_size) ==
    IF results = <<>>
    THEN DetectionResult(<<>>, <<>>, <<>>,
                         MaskTensor(<<>>, fallback_size[2], fallback_size[1]))
    ELSE DetectionResult(
            Flatten([i \in 1..Len(results) |-> results[i].boxes_xyxy]),
            Flatten([i \in 1..Len(results) |-> results[i].scores]),
            Flatten([i \in 1..Len(results) |-> results[i].labels]),
            MaskTensor(Flatten([i \in 1..Len(results) |-> results[i].masks.data]),
                       results[1].masks.height, results[1].masks.width))

----------------------------------------------------------------------------
(* Inputs of a request *)

T_a == <<"a">>
T_A == <<"A">>
T_b == <<"b">>
T_c == <<"c">>
T_snowflakes == <<"s", "n", "o", "w", "f", "l", "a", "k", "e", "s">>
T_car == <<"c", "a", "r">>

Rendered(core, visual) == (CORE :> core) @@ (CORE_VISUAL :> visual)

\* descriptor records, as the label and the rendered variants they lead to
ObjectChoices ==
    { [label |-> T_snowflakes, rendered |-> Rendered(<<T_a>>, <<T_a>>)],
      [label |-> T_car, rendered |-> Rendered(<<T_a>>, <<T_A, T_c>>)],
      [label |-> T_snowflakes, rendered |-> Rendered(<<T_a, T_b>>, <<T_A, T_c>>)] }

\* free-text phrases with their freeform variants
PromptChoices ==
    { [prompt |-> <<"b", " ">>, freeform |-> <<T_b>>],
      [prompt |-> <<" ">>, freeform |-> <<>>] }

FallbackPrompts == <<[prompt |-> T_object, freeform |-> <<T_object>>]>>

ImageSizes == {<<4, 3>>}

ScoreValues == {25, 35, 40, 85}

\* score arrays of a call: any length up to MaxDetections, at most one
\* detection above the lowest score, at any position
ScoreLists ==
    { sc \in SeqsUpTo(ScoreValues, 0, MaxDetections) :
        Cardinality({i \in DOMAIN sc : sc[i] # 25}) <= 1 }

\* what the processor state holds after set_text_prompt
ProcessorStates(raw) ==
    { st \in [boxes : 0..MaxDetections, scores : ScoreLists, masks : 0..MaxDetections] :
        raw \/ (st.boxes = Len(st.scores) /\ st.masks = Len(st.scores)) }

----------------------------------------------------------------------------
(* process_segmentation / _run_tiered_detection as a state machine *)

NoTop == -1

CurrentSet == prompt_sets[obj_idx + 1]

CurrentPlan == CurrentSet.plans[plan_pos + 1]

Call(idx, pos, text) == [obj |-> idx, pos |-> pos, prompts |-> <<text>>]

RECURSIVE TotalPlans(_)
TotalPlans(sets) ==
    IF sets = <<>> THEN 0 ELSE Len(Head(sets).plans) + TotalPlans(Tail(sets))

InitRequest(raw) ==
    /\ pc = "start"
    /\ raw_backend = raw
    /\ NoDetectCall
    /\ image_size \in ImageSizes
    /\ prompt_sets = <<>>
    /\ obj_idx = 0
    /\ plan_pos = 0
    /\ best_result = None
    /\ best_plan = None
    /\ best_score = 0
    /\ per_object_results = <<>>
    /\ prompt_info = <<>>
    /\ combined_result = None
    /\ calls = <<>>
    /\ observed = <<>>
    /\ box = <<>>
    /\ bbox = None
    /\ request = None
    /\ args = None
    /\ ret = None

\* lines 94-100: prompt sets from the free-text prompts and the metadata objects
BuildPromptSets ==
    /\ pc = "start"
    /\ \E prompts \in SeqsUpTo(PromptChoices, 0, 1),
          objects \in SeqsUpTo(ObjectChoices, 0, MaxPlans) :
          /\ LET sets == _build_prompt_sets(prompts, objects)
             IN /\ TotalPlans(sets) <= (IF raw_backend THEN MaxRawPlans ELSE MaxPlans)
                /\ prompt_sets' = IF sets = <<>>
                                  THEN build_from_prompts(FallbackPrompts)
                                  ELSE sets
          /\ request' = [prompts |-> prompts, objects |-> objects]
    /\ pc' = "objects"
    /\ UNCHANGED <<lock_vars, raw_backend, image_size, obj_idx, plan_pos, best_result,
                   best_plan, best_score, per_object_results, prompt_info,
                   combined_result, calls, observed, box, bbox, helper_vars>>

\* lines 423-430: next object, best_* reset, first plan sent to the backend
StartObject ==
    /\ pc = "objects"
    /\ obj_idx < Len(prompt_sets)
    /\ CurrentSet.plans # <<>>
    /\ best_result' = None
    /\ best_plan' = None
    /\ best_score' = 0
    /\ plan_pos' = 0
    /\ observed' = <<>>
    /\ calls' = Append(calls, Call(obj_idx, 0, CurrentSet.plans[1].text))
    /\ pc' = "in_call"
    /\ UNCHANGED <<lock_vars, raw_backend, image_size, prompt_sets, obj_idx,
                   per_object_results, prompt_info, combined_result, box, bbox, request, helper_vars>>

\* lines 429-430: next plan of the same object sent to the backend
NextPlan ==
    /\ pc = "plans"
    /\ plan_pos < Len(CurrentSet.plans)
    /\ calls' = Append(calls, Call(obj_idx, plan_pos, CurrentPlan.text))
    /\ pc' = "in_call"
    /\ UNCHANGED <<lock_vars, raw_backend, image_size, prompt_sets, obj_idx, plan_pos,
                   best_result, best_plan, best_score, per_object_results,
                   prompt_info, combined_result, observed, box, bbox, request, helper_vars>>

\* lines 430-450: the call returns, best_* updated, early exit
DetectReturn ==
    /\ pc = "in_call"
    /\ \E state \in ProcessorStates(raw_backend) :
          LET result == SAM3Model_detect(state, image_size, CurrentPlan.text,
                                         [obj |-> obj_idx, pos |-> plan_pos])
              empty == Len(result.boxes_xyxy) = 0
              max_score == MaxScore(result)
              better == ~empty /\ IsBetter(max_score, best_score)
              exit == better /\ IsEarlyExit(max_score)
          IN /\ observed' = Append(observed, IF empty THEN NoTop ELSE max_score)
             /\ best_score' = IF better THEN max_score ELSE best_score
             /\ best_result' = IF better THEN result ELSE best_result
             /\ best_plan' = IF better THEN CurrentPlan ELSE best_plan
             /\ plan_pos' = IF exit THEN plan_pos ELSE plan_pos + 1
             /\ pc' = IF exit \/ plan_pos + 1 = Len(CurrentSet.plans)
                      THEN "gate" ELSE "plans"
    /\ UNCHANGED <<lock_vars, raw_backend, image_size, prompt_sets, obj_idx,
                   per_object_results, prompt_info, combined_result, calls,
                   box, bbox, request, helper_vars>>

\* variant: the exception is swallowed and the plan loop goes on
RaiseTarget_swallowed == "plans"

\* where control goes when line 430 raises: _run_tiered_detection has no
\* try/except, the exception leaves the function
RaiseTarget == "raised"

\* line 430 raises (SAM3Model.detect re-raises every failure as RuntimeError)
DetectRaise ==
    /\ pc = "in_call"
    /\ pc' = RaiseTarget
    /\ UNCHANGED <<lock_vars, detect_vars, observed, box, bbox, helper_vars>>

\* lines 173-175: process_segmentation's except clause turns the exception
\* into RuntimeError("Segmentation processing failed"), the request fails
RequestFails ==
    /\ pc = "raised"
    /\ pc' = "failed"
    /\ UNCHANGED <<lock_vars, detect_vars, observed, box, bbox, helper_vars>>

\* lines 452-478: acceptance gate of the object, then on to the next object
AcceptanceGate ==
    /\ pc = "gate"
    /\ IF best_result # None /\ best_plan # None /\ MeetsThreshold(best_score)
       THEN LET relabeled == _relabel_detection(best_result, best_plan.label)
            IN /\ per_object_results' = Append(per_object_results, relabeled)
               /\ prompt_info' = prompt_info
                                 \o PromptInfoEntries(relabeled, best_plan, obj_idx)
       ELSE UNCHANGED <<per_object_results, prompt_info>>
    /\ obj_idx' = obj_idx + 1
    /\ pc' = "objects"
    /\ UNCHANGED <<lock_vars, raw_backend, image_size, prompt_sets, plan_pos, best_result,
                   best_plan, best_score, combined_result, calls, observed,
                   box, bbox, request, helper_vars>>

\* lines 480-481: all objects done, the combined result is returned
ReturnCombined ==
    /\ pc = "objects"
    /\ obj_idx = Len(prompt_sets)
    /\ combined_result' = _combine_detection_results(per_object_results, image_size)
    /\ pc' = "detected"
    /\ UNCHANGED <<lock_vars, raw_backend, image_size, prompt_sets, obj_idx, plan_pos,
                   best_result, best_plan, best_score, per_object_results,
                   prompt_info, calls, observed, box, bbox, request, helper_vars>>

Init == InitRequest(FALSE)

Next ==
    \/ BuildPromptSets
    \/ StartObject
    \/ NextPlan
    \/ DetectReturn
    \/ DetectRaise
    \/ RequestFails
    \/ AcceptanceGate
    \/ ReturnCombined

Spec == Init /\ [][Next]_vars

\* the same request against a processor whose arrays need not be parallel
InitRaw == InitRequest(TRUE)

SpecRaw == InitRaw /\ [][Next]_vars

----------------------------------------------------------------------------
(* _clamp_box: floats are finite integers, nan, inf or -inf *)

Fin(n) == [kind |-> "fin", v |-> n]
NaN == [kind |-> "nan", v |-> 0]
PosInf == [kind |-> "inf", v |-> 0]
NegInf == [kind |-> "-inf", v |-> 0]

\* math.isfinite
IsFinite(x) == x.kind = "fin"

\* a <= b on floats (false whenever a nan is involved)
FLeq(a, b) ==
    CASE a.kind = "nan" \/ b.kind = "nan" -> FALSE
      [] a.kind = "-inf" \/ b.kind = "inf" -> TRUE
      [] a.kind = "inf" \/ b.kind = "-inf" -> FALSE
      [] OTHER -> a.v <= b.v

\* Python's max(a, b): b if b > a else a
PyMax(a, b) == IF FLeq(b, a) \/ a.kind = "nan" \/ b.kind = "nan" THEN a ELSE b

\* Python's min(a, b): b if b < a else a
PyMin(a, b) == IF FLeq(a, b) \/ a.kind = "nan" \/ b.kind = "nan" THEN a ELSE b

\* lines 547-551
_sanitize(value, minimum, maximum) ==
    LET v0 == IF ~IsFinite(value) THEN Fin(0) ELSE value
        v1 == PyMax(minimum, v0)
    IN PyMin(v1, maximum)

\* lines 539-540
ClampLimit(dim) == IF dim # 0 /\ dim > 0 THEN Fin(dim) ELSE PosInf

BoundingBox(x1, y1, x2, y2) == [x1 |-> x1, y1 |-> y1, x2 |-> x2, y2 |-> y2]

_clamp_box(b, image_width, image_height) ==
    LET w == ClampLimit(image_width)
        h == ClampLimit(image_height)
        x1 == _sanitize(b[1], Fin(0), PosInf)
        y1 == _sanitize(b[2], Fin(0), PosInf)
        x2 == _sanitize(b[3], x1, w)
        y2 == _sanitize(b[4], y1, h)
    IN BoundingBox(x1, y1, x2, y2)

Coords == {Fin(-5), Fin(10), Fin(20), Fin(700), Fin(9999), NaN, PosInf, NegInf}

ClampSizes == {<<640, 480>>, <<0, 0>>}

InitClamp ==
    /\ pc = "clamp"
    /\ raw_backend = FALSE
    /\ NoDetectCall
    /\ image_size \in ClampSizes
    /\ prompt_sets = <<>>
    /\ obj_idx = 0
    /\ plan_pos = 0
    /\ best_result = None
    /\ best_plan = None
    /\ best_score = 0
    /\ per_object_results = <<>>
    /\ prompt_info = <<>>
    /\ combined_result = None
    /\ calls = <<>>
    /\ observed = <<>>
    /\ box \in [1..4 -> Coords]
    /\ bbox = None
    /\ request = None
    /\ args = None
    /\ ret = None

\* line 310: bbox = self._clamp_box(box, image_width, image_height)
ClampBox ==
    /\ pc = "clamp"
    /\ bbox' = _clamp_box(box, image_size[1], image_size[2])
    /\ pc' = "clamped"
    /\ UNCHANGED <<lock_vars, detect_vars, observed, box, helper_vars>>

NextClamp == ClampBox

SpecClamp == InitClamp /\ [][NextClamp]_vars

----------------------------------------------------------------------------
(* Properties of the detection loop *)

Last(s) == s[Len(s)]

\* the object the entries of observed belong to
ObservedObj == IF pc \in {"objects", "detected"} THEN obj_idx - 1 ELSE obj_idx

ObservedPlans == prompt_sets[ObservedObj + 1].plans

\* highest top score among the calls of the object that returned detections
ObservedBest ==
    IF \E i \in DOMAIN observed : observed[i] # NoTop
    THEN SeqMax([i \in DOMAIN observed |-> IF observed[i] = NoTop THEN 0 ELSE observed[i]])
    ELSE 0

HasEarlyExit == \E i \in DOMAIN observed : observed[i] >= EARLY_EXIT_THRESHOLD

\* C1: once a call of an object has returned detections with a top score of
\* at least 0.85, the next call sent to the backend, if any, is the first
\* plan of the next object; no later plan of the same object is sent.
C1_EarlyExitStopsObject ==
    [][ (calls' # calls /\ HasEarlyExit)
            => /\ Last(calls').obj = Last(calls).obj + 1
               /\ Last(calls').pos = 0 ]_vars

\* an object left by early exit with plans untried, and the next object called
C1_Witness ==
    /\ pc = "in_call"
    /\ obj_idx >= 1
    /\ Len(calls) >= 2
    /\ calls[Len(calls) - 1].obj = obj_idx - 1
    /\ calls[Len(calls) - 1].pos + 1 < Len(prompt_sets[obj_idx].plans)
    /\ Last(calls) = Call(obj_idx, 0, CurrentSet.plans[1].text)
    /\ per_object_results # <<>>
    /\ SeqMax(Last(per_object_results).scores) >= EARLY_EXIT_THRESHOLD

CallsFor(idx) == Cardinality({k \in DOMAIN calls : calls[k].obj = idx})

\* an object with three plans whose loop is over: v1 returned nothing, v2
\* returned detections that pass the gate, v3 returned nothing if it was asked
OnlySecondVariantHits ==
    /\ pc \in {"objects", "detected"}
    /\ obj_idx >= 1
    /\ Len(ObservedPlans) = 3
    /\ Len(observed) >= 2
    /\ observed[1] = NoTop
    /\ observed[2] >= MIN_CONFIDENCE_THRESHOLD
    /\ Len(observed) = 3 => observed[3] = NoTop

SecondVariantSelected ==
    /\ prompt_info # <<>>
    /\ Last(prompt_info).object_id = ObjectId(ObservedObj)
    /\ Last(prompt_info).text = ObservedPlans[2].text
    /\ Last(prompt_info).tier = ObservedPlans[2].tier

\* C4 as claimed: with only v2 of [v1, v2, v3] returning detections, exactly
\* two calls are made for the object and v2 is selected.
C4_ExactlyTwoCalls ==
    OnlySecondVariantHits
        => CallsFor(ObservedObj) = 2 /\ SecondVariantSelected

\* C4: with only v2 of [v1, v2, v3] returning detections, v2 is selected; two
\* calls are made when v2's top score is at least 0.85 and all three when it
\* lies between 0.4 and 0.85.
C4_TwoOrThreeCalls ==
    OnlySecondVariantHits
        => /\ SecondVariantSelected
           /\ observed[2] >= EARLY_EXIT_THRESHOLD => CallsFor(ObservedObj) = 2
           /\ observed[2] < EARLY_EXIT_THRESHOLD => CallsFor(ObservedObj) = 3

\* v2 passes the gate without reaching 0.85: v3 is asked too, v2 is selected
C4_Witness ==
    /\ OnlySecondVariantHits
    /\ observed = <<NoTop, 40, NoTop>>
    /\ CallsFor(ObservedObj) = 3
    /\ SecondVariantSelected

\* position in observed of the earliest call that reached ObservedBest
EarliestBest == CHOOSE i \in DOMAIN observed :
                    /\ observed[i] = ObservedBest
                    /\ \A j \in 1..(i - 1) : observed[j] # ObservedBest

TiersAscend(plans) ==
    \A i, j \in DOMAIN plans :
        /\ plans[i].tier \in {CORE, CORE_VISUAL}
        /\ (i < j /\ plans[i].tier = CORE_VISUAL) => plans[j].tier = CORE_VISUAL

\* C6: the calls of a request are made one at a time in (object, plan) order:
\* the first call is plan 0 of object 0, each later call is the next plan of
\* the same object or plan 0 of the next object, every call carries the one
\* text of its plan, a call is made only after the previous one returned, and
\* every plan list has its CORE plans before its CORE_VISUAL plans.
C6_CallsInPlanOrder ==
    /\ \A s \in DOMAIN prompt_sets : TiersAscend(prompt_sets[s].plans)
    /\ \A k \in DOMAIN calls :
          /\ calls[k].obj + 1 \in DOMAIN prompt_sets
          /\ calls[k].pos + 1 \in DOMAIN prompt_sets[calls[k].obj + 1].plans
          /\ calls[k].prompts =
                <<prompt_sets[calls[k].obj + 1].plans[calls[k].pos + 1].text>>
          /\ IF k = 1
             THEN calls[k].obj = 0 /\ calls[k].pos = 0
             ELSE \/ /\ calls[k].obj = calls[k - 1].obj
                     /\ calls[k].pos = calls[k - 1].pos + 1
                  \/ /\ calls[k].obj = calls[k - 1].obj + 1
                     /\ calls[k].pos = 0
    /\ \A o \in DOMAIN prompt_sets : CallsFor(o - 1) <= Len(prompt_sets[o].plans)
    /\ calls # <<>> =>
          CallsFor(ObservedObj) =
              Len(observed) + (IF pc \in {"in_call", "raised", "failed"} THEN 1 ELSE 0)

\* the second object is being asked its CORE_VISUAL plan after its CORE plan
C6_Witness ==
    /\ pc = "in_call"
    /\ obj_idx = 1
    /\ plan_pos = 1
    /\ CurrentPlan.tier = CORE_VISUAL
    /\ CurrentSet.plans[1].tier = CORE
    /\ Len(calls) = 3

\* C7: a call that raises ends the request: the exception leaves
\* _run_tiered_detection, process_segmentation fails, and from then on no
\* call is made (no retry, no later plan, no later object) and no combined
\* result exists.
C7_BackendFailureAbortsRequest ==
    [][ /\ (pc = "in_call" /\ observed' = observed) => pc' = "raised"
        /\ pc = "raised" => (pc' = "failed" /\ calls' = calls)
        /\ pc # "failed"
        /\ pc' \in {"raised", "failed"} =>
              (combined_result' = None /\ calls' = calls) ]_vars

\* the request failed on the first plan of the second object, after the first
\* object had been accepted
C7_Witness ==
    /\ pc = "failed"
    /\ obj_idx = 1
    /\ per_object_results # <<>>
    /\ plan_pos + 1 < Len(CurrentSet.plans)
    /\ combined_result = None

\* C8 as claimed: detection i of the combined result carries the friendly label of the
\* object whose selected plan produced it, prompt_info[i] carries that plan's
\* tier and text and the object's id, there is one prompt_info entry per
\* detection, and the detections are grouped by object in ascending order.
C8_LabelsAndPromptInfo ==
    pc = "detected"
        => LET r == combined_result
               n == Len(r.boxes_xyxy)
           IN /\ Len(r.labels) = n
              /\ Len(prompt_info) = n
              /\ \A i \in 1..n :
                    LET src == r.boxes_xyxy[i]
                        set == prompt_sets[src.obj + 1]
                        plan == set.plans[src.pos + 1]
                    IN /\ r.labels[i] = set.label
                       /\ prompt_info[i].object_id = ObjectId(src.obj)
                       /\ prompt_info[i].tier = plan.tier
                       /\ prompt_info[i].text = plan.text
                       /\ \A j \in 1..n :
                             /\ i < j => src.obj <= r.boxes_xyxy[j].obj
                             /\ r.boxes_xyxy[j].obj = src.obj
                                   => r.boxes_xyxy[j].pos = src.pos

\* C9 as claimed: whatever the backend returned, boxes, scores, labels, masks
\* and prompt_info of the combined result have one length, and with no
\* accepted object the result is empty with a (0, 1, height, width) mask array.
C9_CombinedWellFormed ==
    pc = "detected"
        => LET r == combined_result
               n == Len(r.boxes_xyxy)
           IN /\ r # None
              /\ Len(r.scores) = n
              /\ Len(r.labels) = n
              /\ Len(r.masks.data) = n
              /\ Len(prompt_info) = n
              /\ per_object_results = <<>> =>
                    /\ n = 0
                    /\ r.masks.height = image_size[2]
                    /\ r.masks.width = image_size[1]

\* finite value of a float
Val(x) == x.v

\* C10 as claimed: for positive image dimensions the emitted box satisfies
\* 0 <= x1 <= x2 <= W and 0 <= y1 <= y2 <= H.
C10_BoxWithinImage ==
    (pc = "clamped" /\ image_size[1] > 0 /\ image_size[2] > 0)
        => /\ \A f \in {"x1", "y1", "x2", "y2"} : IsFinite(bbox[f])
           /\ 0 <= Val(bbox.x1) /\ Val(bbox.x1) <= Val(bbox.x2)
           /\ Val(bbox.x2) <= image_size[1]
           /\ 0 <= Val(bbox.y1) /\ Val(bbox.y1) <= Val(bbox.y2)
           /\ Val(bbox.y2) <= image_size[2]

----------------------------------------------------------------------------
(* Properties of the object ids *)

\* number of prompt sets that precede the sets of the metadata objects
\* (_build_prompt_sets puts the sets of the free-text prompts first)
NumPromptSets == Len(build_from_prompts(request.prompts))

\* C16 as claimed: a detection produced from descriptor record k (0-based
\* position in the request's objects list) carries the object_id 'object_k',
\* also when the request supplies free-text prompts as well.
C16_ObjectIdIsRecordIndex ==
    pc = "detected"
        => \A i \in DOMAIN prompt_info :
              LET s == combined_result.boxes_xyxy[i].obj
              IN (request.objects # <<>> /\ s >= NumPromptSets)
                    => prompt_info[i].object_id = ObjectId(s - NumPromptSets)

\* labels that name a particle-like object: their singular is one of
\* PromptBuilder.plural_fallback_nouns ("snowflake", "raindrop", ...)
ParticleLabels == {T_snowflakes}

\* C28 as claimed: an object labelled with a particle noun whose best call
\* returned a single detection scoring 0.25, below the floor 0.4, is accepted
\* with the object's label and its plan's tier; with any other label the
\* same score is rejected.
C28_RelaxedFloorForParticles ==
    (/\ pc = "objects"
     /\ obj_idx > 0
     /\ best_result # None
     /\ best_result.scores = <<25>>
     /\ Len(best_result.boxes_xyxy) = 1)
        => IF prompt_sets[obj_idx].label \in ParticleLabels
           THEN /\ per_object_results # <<>>
                /\ Last(per_object_results)
                      = _relabel_detection(best_result, prompt_sets[obj_idx].label)
                /\ prompt_info # <<>>
                /\ Last(prompt_info).tier = best_plan.tier
                /\ Last(prompt_info).object_id = ObjectId(obj_idx - 1)
           ELSE \A k \in DOMAIN prompt_info :
                   prompt_info[k].object_id # ObjectId(obj_idx - 1)

\* the other half alone: the score 0.25 is rejected for a label that names no
\* particle
C28_DefaultFloorOtherwise ==
    (/\ pc = "objects"
     /\ obj_idx > 0
     /\ best_result # None
     /\ best_result.scores = <<25>>
     /\ prompt_sets[obj_idx].label \notin ParticleLabels)
        => \A k \in DOMAIN prompt_info :
              prompt_info[k].object_id # ObjectId(obj_idx - 1)

----------------------------------------------------------------------------
(* Python strings: a str is a TLA+ string, read one character at a time *)

\* Optional[str]: Some(s) or None
Some(s) == [value |-> s]

UpperChars == "ABCDEFGHIJKLMNOPQRSTUVWXYZ"
LowerChars == "abcdefghijklmnopqrstuvwxyz"
DigitChars == "0123456789"

\* sub in s
Contains(s, sub) ==
    \E i \in 1..(Len(s) - Len(sub) + 1) : SubSeq(s, i, i + Len(sub) - 1) = sub

\* s.find(sub), 0-based, -1 when absent
Find(s, sub) ==
    LET hits == {i \in 1..(Len(s) - Len(sub) + 1) : SubSeq(s, i, i + Len(sub) - 1) = sub}
    IN IF hits = {} THEN 0 - 1
       ELSE (CHOOSE i \in hits : \A j \in hits : i <= j) - 1

\* s.rfind(sub), 0-based, -1 when absent
RFind(s, sub) ==
    LET hits == {i \in 1..(Len(s) - Len(sub) + 1) : SubSeq(s, i, i + Len(sub) - 1) = sub}
    IN IF hits = {} THEN 0 - 1
       ELSE (CHOOSE i \in hits : \A j \in hits : i >= j) - 1

StartsWith(s, prefix) == Len(prefix) <= Len(s) /\ SubSeq(s, 1, Len(prefix)) = prefix

EndsWith(s, suffix) ==
    Len(suffix) <= Len(s) /\ SubSeq(s, Len(s) - Len(suffix) + 1, Len(s)) = suffix

\* str.lower() of one character
LowerChar(c) ==
    LET at == {i \in 1..Len(UpperChars) : SubSeq(UpperChars, i, i) = c}
    IN IF at = {} THEN c
       ELSE LET i == CHOOSE i \in at : TRUE IN SubSeq(LowerChars, i, i)

\* str.upper() of one character
UpperChar(c) ==
    LET at == {i \in 1..Len(LowerChars) : SubSeq(LowerChars, i, i) = c}
    IN IF at = {} THEN c
       ELSE LET i == CHOOSE i \in at : TRUE IN SubSeq(UpperChars, i, i)

RECURSIVE StrLower(_)
StrLower(s) ==
    IF s = "" THEN ""
    ELSE IF Len(s) = 1 THEN LowerChar(s)
    ELSE LET half == Len(s) \div 2
         IN StrLower(SubSeq(s, 1, half)) \o StrLower(SubSeq(s, half + 1, Len(s)))

RECURSIVE StrUpper(_)
StrUpper(s) ==
    IF s = "" THEN ""
    ELSE IF Len(s) = 1 THEN UpperChar(s)
    ELSE LET half == Len(s) \div 2
         IN StrUpper(SubSeq(s, 1, half)) \o StrUpper(SubSeq(s, half + 1, Len(s)))

\* s.lstrip(chars), s.rstrip(chars), s.strip(chars)
RECURSIVE LStripChars(_, _)
LStripChars(s, chars) ==
    IF s # "" /\ Contains(chars, Head(s)) THEN LStripChars(Tail(s), chars) ELSE s

RECURSIVE RStripChars(_, _)
RStripChars(s, chars) ==
    IF s # "" /\ Contains(chars, SubSeq(s, Len(s), Len(s)))
    THEN RStripChars(SubSeq(s, 1, Len(s) - 1), chars)
    ELSE s

StripChars(s, chars) == RStripChars(LStripChars(s, chars), chars)

\* s.strip()
StrStrip(s) == StripChars(s, " ")

\* s.split()
RECURSIVE StrSplit(_)
StrSplit(s) ==
    LET spaces == {i \in 1..Len(s) : SubSeq(s, i, i) = " "}
        Distance(i) == IF 2 * i >= Len(s) THEN 2 * i - Len(s) ELSE Len(s) - 2 * i
        middle == CHOOSE i \in spaces : \A j \in spaces : Distance(i) <= Distance(j)
    IN IF s = "" THEN <<>>
       ELSE IF spaces = {} THEN <<s>>
       ELSE StrSplit(SubSeq(s, 1, middle - 1)) \o StrSplit(SubSeq(s, middle + 1, Len(s)))

\* sep.join(parts)
RECURSIVE StrJoin(_, _)
StrJoin(parts, sep) ==
    IF parts = <<>> THEN ""
    ELSE IF Len(parts) = 1 THEN parts[1]
    ELSE LET half == Len(parts) \div 2
         IN StrJoin(SubSeq(parts, 1, half), sep) \o sep
            \o StrJoin(SubSeq(parts, half + 1, Len(parts)), sep)

\* s.split(sep)[0]
FirstPart(s, sep) == IF Contains(s, sep) THEN SubSeq(s, 1, Find(s, sep)) ELSE s

----------------------------------------------------------------------------
(* _match_object_metadata *)

MaxDescriptors == 2

\* dict.get("description", ""): the value Missing stands for an absent key
Missing == [missing |-> TRUE]

\* a descriptor of the metadata: a dict with a description and a location
\* (the other fields behave like location), or something that is no dict
Descriptor(description, location) ==
    [is_dict |-> TRUE, description |-> description, location |-> location]

NotADict == [is_dict |-> FALSE]

\* dict.get(key, "")
GetOrEmpty(v) == IF v = Missing THEN Some("") ELSE v

ObjectMetadata(description, location) ==
    [description |-> description, location |-> location]

\* label and label.lower() in obj_desc
LabelMatches(label, obj_desc) == label # "" /\ Contains(obj_desc, StrLower(label))

\* prompt_text and any(word in obj_desc for word in ... if len(word) > 3)
PromptMatches(prompt_text, obj_desc) ==
    /\ prompt_text # None
    /\ prompt_text.value # ""
    /\ LET words == StrSplit(StrLower(prompt_text.value))
       IN \E k \in DOMAIN words : Len(words[k]) > 3 /\ Contains(obj_desc, words[k])

\* the two tests made on one descriptor, lines 370-378
MatchesDescriptor(label, prompt_text, obj_desc) ==
    LabelMatches(label, obj_desc) \/ PromptMatches(prompt_text, obj_desc)

Raised(exception) == [raised |-> exception]

\* the for loop of lines 364-378 from position i (1-based) on: the position
\* of the descriptor it breaks on, 0 when it runs to the end, or the
\* AttributeError of None.lower()
RECURSIVE MatchLoop(_, _, _, _)
MatchLoop(label, prompt_text, objects_metadata, i) ==
    IF i > Len(objects_metadata) THEN [at |-> 0]
    ELSE LET obj == objects_metadata[i]
         IN IF ~obj.is_dict
            THEN MatchLoop(label, prompt_text, objects_metadata, i + 1)
            ELSE IF GetOrEmpty(obj.description) = None
            THEN Raised("AttributeError")
            ELSE IF MatchesDescriptor(label, prompt_text,
                                      StrLower(GetOrEmpty(obj.description).value))
            THEN [at |-> i]
            ELSE MatchLoop(label, prompt_text, objects_metadata, i + 1)

\* the descriptor at position at (1-based) turned into an ObjectMetadata;
\* None when it is no dict or when the schema rejects one of its fields
ToObjectMetadata(objects_metadata, at) ==
    LET obj == objects_metadata[at]
    IN IF ~obj.is_dict THEN None
       ELSE IF GetOrEmpty(obj.description) = None \/ GetOrEmpty(obj.location) = None
       THEN None
       ELSE [index |-> at - 1,
             object_metadata |-> ObjectMetadata(GetOrEmpty(obj.description).value,
                                                GetOrEmpty(obj.location).value)]

_match_object_metadata(label, prompt_text, objects_metadata, fallback_index) ==
    IF objects_metadata = <<>> THEN None
    ELSE LET found == MatchLoop(label, prompt_text, objects_metadata, 1)
         IN IF found = Raised("AttributeError") THEN found
            ELSE IF found.at # 0 THEN ToObjectMetadata(objects_metadata, found.at)
            ELSE IF fallback_index < Len(objects_metadata)
            THEN ToObjectMetadata(objects_metadata, fallback_index + 1)
            ELSE None

DescriptorChoices ==
    { Descriptor(Some("A red car"), Some("")),
      Descriptor(Some("Blue vase with flowers"), Missing),
      Descriptor(Some("old tree"), None),
      Descriptor(None, Some("")),
      NotADict }

LabelChoices == {"car", "Vase", "tree", ""}

PromptTextChoices == {None, Some("red car with stripes"), Some("vase"), Some("a big tree")}

InitMatch ==
    /\ pc = "match"
    /\ raw_backend = FALSE
    /\ NoDetectCall
    /\ image_size \in ImageSizes
    /\ prompt_sets = <<>>
    /\ obj_idx = 0
    /\ plan_pos = 0
    /\ best_result = None
    /\ best_plan = None
    /\ best_score = 0
    /\ per_object_results = <<>>
    /\ prompt_info = <<>>
    /\ combined_result = None
    /\ calls = <<>>
    /\ observed = <<>>
    /\ box = <<>>
    /\ bbox = None
    /\ request = None
    /\ args \in [label : LabelChoices,
                 prompt_text : PromptTextChoices,
                 objects_metadata : SeqsUpTo(DescriptorChoices, 0, MaxDescriptors),
                 fallback_index : 0..MaxDescriptors]
    /\ ret = None

\* lines 301-303: object_metadata = self._match_object_metadata(...)
MatchObjectMetadata ==
    /\ pc = "match"
    /\ ret' = _match_object_metadata(args.label, args.prompt_text,
                                     args.objects_metadata, args.fallback_index)
    /\ pc' = "matched"
    /\ UNCHANGED <<lock_vars, detect_vars, observed, box, bbox, args>>

NextMatch == MatchObjectMetadata

SpecMatch == InitMatch /\ [][NextMatch]_vars

\* positions (1-based) of the dict descriptors with a usable description
\* that pass the given rule
Candidates(objects_metadata, Rule(_)) ==
    { i \in DOMAIN objects_metadata :
        /\ objects_metadata[i].is_dict
        /\ GetOrEmpty(objects_metadata[i].description) # None
        /\ Rule(StrLower(GetOrEmpty(objects_metadata[i].description).value)) }

Min(S) == CHOOSE x \in S : \A y \in S : x <= y

\* the position the three rules select when applied in strict priority over
\* the whole list, 0 when none applies
PriorityChoice(label, prompt_text, objects_metadata, fallback_index) ==
    LET ByLabel(d) == LabelMatches(label, d)
        ByWord(d) == PromptMatches(prompt_text, d)
        by_label == Candidates(objects_metadata, ByLabel)
        by_word == Candidates(objects_metadata, ByWord)
    IN IF by_label # {} THEN Min(by_label)
       ELSE IF by_word # {} THEN Min(by_word)
       ELSE IF fallback_index < Len(objects_metadata) THEN fallback_index + 1
       ELSE 0

\* every description of the list can be lowered and every field is a string
AllUsable(objects_metadata) ==
    \A i \in DOMAIN objects_metadata :
        /\ objects_metadata[i].is_dict
        /\ GetOrEmpty(objects_metadata[i].description) # None
        /\ GetOrEmpty(objects_metadata[i].location) # None

\* C14 as claimed: over a list of well-formed descriptors the matcher returns
\* the first descriptor that contains the label if there is one, else the
\* first one sharing a word longer than 3 characters with the prompt text,
\* else the descriptor at the detection's index, else nothing.
C14_StrictPriority ==
    (pc = "matched" /\ AllUsable(args.objects_metadata))
        => LET want == PriorityChoice(args.label, args.prompt_text,
                                      args.objects_metadata, args.fallback_index)
           IN IF want = 0 THEN ret = None
              ELSE ret # None /\ ret.index = want - 1

----------------------------------------------------------------------------
(* _extract_prompt_object *)

concrete_nouns ==
    {
      "person", "man", "woman", "child", "boy", "girl", "baby", "people",
      "crowd", "soldier", "doctor", "teacher", "chef", "artist", "musician",
      "dancer", "lady", "gentleman", "teenager", "adult", "elder", "figure",
      "character", "demon", "angel", "dragon", "wizard", "knight", "warrior",
      "monster", "creature", "giant", "dwarf", "elf", "fairy", "ghost",
      "vampire", "zombie", "robot", "alien", "witch", "sorcerer", "mage",
      "hero", "villain", "god", "goddess", "spirit", "dog", "cat", "bird",
      "horse", "cow", "sheep", "fish", "lion", "tiger", "bear", "elephant",
      "rabbit", "mouse", "deer", "wolf", "fox", "monkey", "gorilla", "penguin",
      "duck", "chicken", "eagle", "owl", "snake", "frog", "turtle", "dolphin",
      "whale", "butterfly", "bee", "spider", "ant", "phoenix", "face", "head",
      "hand", "hands", "arm", "arms", "leg", "legs", "eye", "eyes", "wings",
      "wing", "tail", "horn", "horns", "hair", "finger", "fingers", "flower",
      "flowers", "rose", "petal", "petals", "leaf", "leaves", "tree", "trees",
      "plant", "plants", "grass", "bush", "vine", "blossom", "bloom", "bud",
      "rock", "stone", "mountain", "river", "lake", "ocean", "beach", "forest",
      "cloud", "clouds", "sun", "moon", "star", "stars", "sky", "car", "bus",
      "truck", "van", "motorcycle", "bike", "bicycle", "train", "plane",
      "boat", "ship", "helicopter", "spacecraft", "rocket", "submarine",
      "vehicle", "chair", "table", "desk", "sofa", "couch", "bed", "lamp",
      "shelf", "cabinet", "drawer", "bench", "stool", "throne", "seat",
      "apple", "orange", "banana", "pizza", "burger", "sandwich", "cake",
      "bread", "fruit", "vegetable", "meat", "cheese", "wine", "beer", "water",
      "coffee", "sword", "axe", "knife", "gun", "bow", "arrow", "shield",
      "spear", "hammer", "staff", "wand", "blade", "dagger", "weapon",
      "sunglasses", "glasses", "hat", "helmet", "crown", "ring", "necklace",
      "bracelet", "watch", "earring", "earrings", "mask", "cape", "cloak",
      "jewelry", "shirt", "dress", "pants", "shoes", "jacket", "coat", "robe",
      "armor", "gown", "ball", "box", "bag", "bottle", "cup", "glass", "plate",
      "bowl", "book", "phone", "computer", "laptop", "camera", "clock", "key",
      "door", "window", "mirror", "candle", "torch", "flag", "banner", "sign",
      "poster", "picture", "frame", "gem", "gemstone", "jewel", "crystal",
      "orb", "sphere", "cube", "house", "building", "tower", "bridge", "road",
      "street", "path", "castle", "temple", "church", "palace", "wall", "gate",
      "arch", "column", "pillar", "light", "shadow", "glow", "aura", "flame",
      "fire", "smoke", "mist", "fog"
    }

modifiers ==
    {
      "small", "large", "big", "tiny", "huge", "tall", "short", "long", "wide",
      "narrow", "massive", "miniature", "giant", "little", "red", "blue",
      "green", "yellow", "black", "white", "brown", "golden", "silver",
      "orange", "pink", "purple", "crimson", "scarlet", "dark", "light",
      "bright", "colorful", "pale", "vivid", "vibrant", "muted", "pastel",
      "old", "new", "young", "ancient", "modern", "vintage", "classic",
      "contemporary", "fresh", "aged", "eternal", "wooden", "metal", "plastic",
      "glass", "stone", "leather", "fabric", "silk", "cotton", "velvet",
      "satin", "lace", "beautiful", "ugly", "pretty", "handsome", "cute",
      "elegant", "fancy", "majestic", "delicate", "rough", "smooth", "sleek",
      "shiny", "glossy", "matte", "dull", "soft", "hard", "fuzzy", "fluffy",
      "sharp", "angular", "round", "curved", "happy", "sad", "angry", "calm",
      "peaceful", "cheerful", "fierce", "menacing", "serene", "gentle", "wild",
      "tame", "male", "female", "muscular", "imposing", "powerful",
      "formidable", "slender", "thin", "thick", "fat", "lean", "athletic",
      "public", "private", "commercial", "reflective", "leathery", "scaly",
      "fallen", "floating", "flying", "standing", "sitting", "lying",
      "running", "organic", "irregular", "natural", "artificial", "magical",
      "mystical", "asian", "european", "african", "american", "eastern",
      "western", "predominantly", "slightly", "somewhat", "very", "quite",
      "rather", "freshly", "newly", "recently", "slowly", "quickly", "gently"
    }

articles ==
    <<
      "a ", "an ", "the ", "this ", "that ", "some ", "any ", "pair of ",
      "set of ", "group of ", "bunch of "
    >>

prep_separators ==
    <<
      ", her ", ", his ", ", its ", ", their ", " with ", " on ", " in ",
      " at ", " by ", " near ", " wearing ", " holding ", " carrying ",
      " featuring "
    >>

adjective_suffixes == <<"ly", "ful", "less", "ous", "ive", "ing", "ed">>

\* the characters of word.strip(".,!?;:'\"()[]")
WordPunctuation == ".,!?;:'\"()[]"

\* s.replace(old, new) for one-character old
RECURSIVE ReplaceChar(_, _, _)
ReplaceChar(s, old, new) ==
    IF s = "" THEN ""
    ELSE IF Len(s) = 1 THEN (IF s = old THEN new ELSE s)
    ELSE LET half == Len(s) \div 2
         IN ReplaceChar(SubSeq(s, 1, half), old, new)
            \o ReplaceChar(SubSeq(s, half + 1, Len(s)), old, new)

\* the first element of list that satisfies Test, or None
FirstWhere(list, Test(_)) ==
    LET hits == {k \in DOMAIN list : Test(list[k])}
    IN IF hits = {} THEN None
       ELSE Some(list[CHOOSE k \in hits : \A j \in hits : k <= j])

\* the last element of list that satisfies Test, or None
LastWhere(list, Test(_)) ==
    LET hits == {k \in DOMAIN list : Test(list[k])}
    IN IF hits = {} THEN None
       ELSE Some(list[CHOOSE k \in hits : \A j \in hits : k >= j])

CleanWords(words) == [k \in DOMAIN words |-> StripChars(words[k], WordPunctuation)]

\* lines 621-634: the text the noun is looked for in
TextToParse(prompt_text, object_metadata) ==
    LET desc == IF object_metadata # None /\ object_metadata.is_dict
                THEN GetOrEmpty(object_metadata.description)
                ELSE Some("")
        first_sentence == IF desc # None /\ desc.value # ""
                          THEN StrStrip(FirstPart(desc.value, "."))
                          ELSE ""
    IN IF first_sentence # "" THEN Some(first_sentence) ELSE prompt_text

\* lines 636-795 on a text that is not blank
ExtractNoun(text) ==
    LET IsPrefix(a) == StartsWith(text, a)
        article == FirstWhere(articles, IsPrefix)
        clean_text == IF article = None THEN text
                      ELSE SubSeq(text, Len(article.value) + 1, Len(text))
        Occurs(sep) == Contains(clean_text, sep)
        separator == FirstWhere(prep_separators, Occurs)
        main_phrase == IF separator = None THEN clean_text
                       ELSE FirstPart(clean_text, separator.value)
        all_words == StrSplit(ReplaceChar(ReplaceChar(text, ",", " "), ".", " "))
        main_words == StrSplit(ReplaceChar(main_phrase, ",", " "))
        words == IF main_words = <<>> THEN all_words ELSE main_words
        IsNoun(w) == w \in concrete_nouns
        IsHead(w) == /\ w # ""
                     /\ w \notin modifiers
                     /\ Len(w) > 2
                     /\ \A k \in DOMAIN adjective_suffixes :
                           ~EndsWith(w, adjective_suffixes[k])
        found_noun == LastWhere(CleanWords(words), IsNoun)
        scanned == FirstWhere(CleanWords(all_words), IsNoun)
        head == LastWhere(CleanWords(words), IsHead)
        last == StripChars(words[Len(words)], WordPunctuation)
    IN IF words = <<>> THEN None
       ELSE IF found_noun # None THEN found_noun
       ELSE IF scanned # None THEN scanned
       ELSE IF head # None THEN head
       ELSE IF last # "" /\ Len(last) > 2 THEN Some(last)
       ELSE None

_extract_prompt_object(prompt_text, object_metadata) ==
    LET text_to_parse == TextToParse(prompt_text, object_metadata)
    IN IF text_to_parse = None \/ text_to_parse.value = "" THEN None
       ELSE LET text == StrLower(StrStrip(text_to_parse.value))
            IN IF text = "" THEN None ELSE ExtractNoun(text)

----------------------------------------------------------------------------
(* _calculate_mask_metadata *)

MaxMasks == 2

\* no detection request is in progress while a helper is called on its own
NoRequest ==
    /\ raw_backend = FALSE
    /\ NoDetectCall
    /\ image_size \in ImageSizes
    /\ prompt_sets = <<>>
    /\ obj_idx = 0
    /\ plan_pos = 0
    /\ best_result = None
    /\ best_plan = None
    /\ best_score = 0
    /\ per_object_results = <<>>
    /\ prompt_info = <<>>
    /\ combined_result = None
    /\ calls = <<>>
    /\ observed = <<>>
    /\ box = <<>>
    /\ bbox = None
    /\ request = None

\* int(x) of a float that is a whole number of halves: n / 2 truncated
\* towards zero
TruncHalf(n) == IF n >= 0 THEN n \div 2 ELSE 0 - ((0 - n) \div 2)

\* int((a + b) / 2) of lines 283-284; int() of nan or of an infinity raises
MidpointInt(a, b) ==
    IF IsFinite(a) /\ IsFinite(b) THEN [value |-> TruncHalf(a.v + b.v)]
    ELSE Raised("ValueError")

\* int(coords.mean()) over the foreground pixels of a mask, a set of <<x, y>>
MeanInt(mask, axis) ==
    LET RECURSIVE Total(_)
        Total(T) == IF T = {} THEN 0
                    ELSE LET p == CHOOSE p \in T : TRUE IN p[axis] + Total(T \ {p})
    IN Total(mask) \div Cardinality(mask)

\* a percentage kept exact: 100 * num / den
Percentage(num, den) == [num |-> 100 * num, den |-> den]

PromptTierLiterals == {"CORE", "CORE_VISUAL", "CORE_VISUAL_SPATIAL"}

\* the field constraints of MaskMetadata; confidence is in hundredths
MaskMetadataValid(m) ==
    /\ IsFinite(m.confidence)
    /\ m.confidence.v >= 0
    /\ m.confidence.v <= 100
    /\ m.area_pixels >= 0
    /\ m.area_percentage.num >= 0
    /\ m.area_percentage.num <= 100 * m.area_percentage.den
    /\ m.prompt_tier = None \/ m.prompt_tier.value \in PromptTierLiterals

\* lines 113-117 of process_segmentation: the dims handed on, <<width, height>>
ImageDims(image_dims, masks) ==
    IF masks.n > 0 /\ masks.height > 0 /\ masks.width > 0 /\ masks.dim >= 4
    THEN <<masks.width, masks.height>>
    ELSE image_dims

\* one pass of the loop of lines 264-335 for mask i (0-based): the record
\* handed to the schema and whether the schema accepts it, or the exception
\* that leaves the loop
MaskRecord(det, i, image_width, image_height, total_pixels, objects_metadata) ==
    LET d == det[i + 1]
        area_pixels == Cardinality(d.mask)
        centroid_x == IF area_pixels > 0 THEN [value |-> MeanInt(d.mask, 1)]
                      ELSE MidpointInt(d.box[1], d.box[3])
        centroid_y == IF area_pixels > 0 THEN [value |-> MeanInt(d.mask, 2)]
                      ELSE MidpointInt(d.box[2], d.box[4])
        area_percentage == Percentage(area_pixels, total_pixels)
        prompt_tier == IF d.info.tier # "" THEN Some(StrUpper(d.info.tier)) ELSE None
        prompt_text == Some(d.info.text)
        object_id == Some(d.info.object_id)
        object_metadata == _match_object_metadata(d.label, prompt_text,
                                                  objects_metadata, i)
        raw_obj_metadata == IF i < Len(objects_metadata)
                            THEN objects_metadata[i + 1] ELSE None
        prompt_object == _extract_prompt_object(prompt_text, raw_obj_metadata)
        \* the keyword arguments of the MaskMetadata(...) call of lines 313-327
        mask_metadata ==
            [mask_id |-> "mask_" \o ToString(i),
             object_id |-> object_id,
             label |-> d.label,
             confidence |-> d.score,
             bounding_box |-> _clamp_box(d.box, image_width, image_height),
             area_pixels |-> area_pixels,
             area_percentage |-> area_percentage,
             centroid |-> <<centroid_x.value, centroid_y.value>>,
             mask_url |-> "mask_" \o ToString(i) \o ".png",
             prompt_tier |-> prompt_tier,
             prompt_text |-> prompt_text,
             prompt_object |-> prompt_object,
             object_metadata |-> IF object_metadata = None THEN None
                                 ELSE object_metadata.object_metadata]
    IN IF centroid_x = Raised("ValueError") \/ centroid_y = Raised("ValueError")
       THEN Raised("ValueError")
       ELSE IF object_metadata = Raised("AttributeError") THEN object_metadata
       ELSE [record |-> mask_metadata, valid |-> MaskMetadataValid(mask_metadata)]

\* the loop of lines 264-335 from mask i on; dims is <<image_width,
\* image_height, total_pixels>>, built.masks_metadata the list built so far
\* and built.attempted every MaskMetadata(...) call made, the ones the schema
\* rejected (lines 329-335) included
RECURSIVE MaskLoop(_, _, _, _, _)
MaskLoop(det, i, dims, objects_metadata, built) ==
    IF i >= Len(det) THEN built
    ELSE LET r == MaskRecord(det, i, dims[1], dims[2], dims[3], objects_metadata)
         IN IF "raised" \in DOMAIN r
            THEN Raised("RuntimeError")
            ELSE MaskLoop(det, i + 1, dims, objects_metadata,
                          [masks_metadata |-> IF r.valid
                                              THEN Append(built.masks_metadata, r.record)
                                              ELSE built.masks_metadata,
                           attempted |-> Append(built.attempted, r.record)])

\* the list of records, or the RuntimeError of line 342
_calculate_mask_metadata(det, image_width, image_height, objects_metadata) ==
    LET product == image_width * image_height
        total_pixels == IF product > 1 THEN product ELSE 1
    IN MaskLoop(det, 0, <<image_width, image_height, total_pixels>>,
                objects_metadata, [masks_metadata |-> <<>>, attempted |-> <<>>])

\* the masks tensor: N x 1 x H x W (dim 4) or N x H x W (dim 3)
MaskHeight == 2
MaskWidth == 2

MaskPixels == (0..(MaskWidth - 1)) \X (0..(MaskHeight - 1))

PromptInfo(label, tier, text, object_id) ==
    [label |-> label, tier |-> tier, text |-> text, object_id |-> object_id]

Detection(b, score, mask, info) ==
    [box |-> b, score |-> score, mask |-> mask, label |-> info.label, info |-> info]

\* what the backend measured: box, score in hundredths, foreground pixels
MeasuredChoices ==
    { [box |-> <<Fin(0), Fin(0), Fin(2), Fin(1)>>, score |-> Fin(90),
       mask |-> {<<0, 0>>, <<1, 0>>}],
      [box |-> <<Fin(0 - 4), Fin(1), Fin(9), Fin(2)>>, score |-> Fin(50),
       mask |-> {}],
      [box |-> <<NaN, Fin(0), Fin(2), PosInf>>, score |-> Fin(60),
       mask |-> {}],
      [box |-> <<NaN, NegInf, PosInf, Fin(1)>>, score |-> Fin(100),
       mask |-> MaskPixels],
      [box |-> <<Fin(1), Fin(1), Fin(2), Fin(2)>>, score |-> Fin(150),
       mask |-> {<<1, 1>>}],
      [box |-> <<Fin(0), Fin(1), Fin(1), Fin(2)>>, score |-> Fin(0 - 10),
       mask |-> {<<0, 1>>}] }

\* the winning plan of each object of the request
PromptInfoChoices ==
    { PromptInfo("vase", "core_visual", "blue vase", "object_0"),
      PromptInfo("car", "core", "red car", "object_1") }

DetectionChoices ==
    { Detection(m.box, m.score, m.mask, info) :
        m \in MeasuredChoices, info \in PromptInfoChoices }

VaseDescriptor == Descriptor(Some("Blue vase with flowers"), Some("left"))
CarDescriptor == Descriptor(Some("A red car"), Some("right"))

ObjectsMetadataChoices ==
    { <<>>, <<VaseDescriptor>>, <<VaseDescriptor, CarDescriptor>> }

\* the size read by _get_image_dims, <<0, 0>> when it is unknown
ImageDimsChoices == { <<MaskWidth, MaskHeight>>, <<0, 0>> }

InitMeta ==
    /\ pc = "meta"
    /\ NoRequest
    /\ args \in [detections : SeqsUpTo(DetectionChoices, 0, MaxMasks),
                 masks_dim : {3, 4},
                 image_dims : ImageDimsChoices,
                 objects_metadata : ObjectsMetadataChoices]
    /\ ret = None

\* process_segmentation lines 113-136: pick the dims, then compute the records
CalculateMaskMetadata ==
    /\ pc = "meta"
    /\ LET masks == [n |-> Len(args.detections), dim |-> args.masks_dim,
                     height |-> MaskHeight, width |-> MaskWidth]
           dims == ImageDims(args.image_dims, masks)
       IN ret' = _calculate_mask_metadata(args.detections, dims[1], dims[2],
                                          args.objects_metadata)
    /\ pc' = "meta_done"
    /\ UNCHANGED <<lock_vars, detect_vars, observed, box, bbox, args>>

NextMeta == CalculateMaskMetadata

SpecMeta == InitMeta /\ [][NextMeta]_vars

\* the dims _calculate_mask_metadata was called with
MetaDims ==
    ImageDims(args.image_dims,
              [n |-> Len(args.detections), dim |-> args.masks_dim,
               height |-> MaskHeight, width |-> MaskWidth])

\* C11 as claimed: whatever numbers the backend reports (NaN, infinite,
\* negative or out-of-range coordinates, scores outside [0, 1], all-false
\* masks), _calculate_mask_metadata raises nothing and returns exactly one
\* record per detection, in order, record i carrying mask_id "mask_<i>".
C11_TotalAndLossless ==
    pc = "meta_done"
        => /\ ret # Raised("RuntimeError")
           /\ Len(ret.masks_metadata) = Len(args.detections)
           /\ \A k \in DOMAIN ret.masks_metadata :
                 ret.masks_metadata[k].mask_id = "mask_" \o ToString(k - 1)

\* the detection a record was made from
DetectionOf(m) ==
    args.detections[CHOOSE k \in DOMAIN args.detections :
                       m.mask_id = "mask_" \o ToString(k - 1)]

\* c is total / count truncated to an integer, for total >= 0
IsTruncatedQuotient(c, total, count) ==
    c * count <= total /\ total < (c + 1) * count

CoordinateSum(mask, axis) ==
    LET RECURSIVE Total(_)
        Total(T) == IF T = {} THEN 0
                    ELSE LET p == CHOOSE p \in T : TRUE IN p[axis] + Total(T \ {p})
    IN Total(mask)

\* C12 as claimed: in every emitted record the centroid is the truncated
\* mean of the foreground pixel coordinates when the mask has foreground
\* pixels, and the truncated midpoint of the bounding box of that same
\* record when it has none.
C12_CentroidOfRecord ==
    (pc = "meta_done" /\ ret # Raised("RuntimeError"))
        => \A k \in DOMAIN ret.masks_metadata :
              LET m == ret.masks_metadata[k]
                  mask == DetectionOf(m).mask
                  bb == m.bounding_box
              IN IF m.area_pixels > 0
                 THEN /\ IsTruncatedQuotient(m.centroid[1], CoordinateSum(mask, 1),
                                             m.area_pixels)
                      /\ IsTruncatedQuotient(m.centroid[2], CoordinateSum(mask, 2),
                                             m.area_pixels)
                 ELSE /\ IsTruncatedQuotient(m.centroid[1], bb.x1.v + bb.x2.v, 2)
                      /\ IsTruncatedQuotient(m.centroid[2], bb.y1.v + bb.y2.v, 2)

\* C13 as claimed: for every detection processed, area_percentage is
\* 100 * area_pixels / max(image_width * image_height, 1) with area_pixels
\* the number of true mask pixels, and lies in [0, 100] whatever image size
\* the request supplies, width or height 0 or unknown included.
C13_AreaPercentage ==
    (pc = "meta_done" /\ ret # Raised("RuntimeError"))
        => \A k \in DOMAIN ret.attempted :
              LET a == ret.attempted[k].area_percentage
                  area_pixels == Cardinality(args.detections[k].mask)
                  product == MetaDims[1] * MetaDims[2]
                  total == IF product >= 1 THEN product ELSE 1
              IN /\ a.num * total = 100 * area_pixels * a.den
                 /\ 0 <= a.num
                 /\ a.num <= 100 * a.den

\* the descriptor the matcher associated with a record, as a dict
MatchedDescriptor(m) ==
    IF m.object_metadata = None THEN None
    ELSE Descriptor(Some(m.object_metadata.description),
                    Some(m.object_metadata.location))

\* C15 as claimed: the prompt_object of every emitted mask is extracted from
\* the description of the descriptor the matcher associated with that mask,
\* and from the prompt text only when that descriptor has no usable
\* description, also when one object yields several masks or an earlier
\* object yields none.
C15_PromptObjectOfMatchedDescriptor ==
    (pc = "meta_done" /\ ret # Raised("RuntimeError"))
        => \A k \in DOMAIN ret.masks_metadata :
              LET m == ret.masks_metadata[k]
              IN m.prompt_object
                    = _extract_prompt_object(m.prompt_text, MatchedDescriptor(m))

----------------------------------------------------------------------------
(* DescriptorDeduper: greedy single pass over a list of phrases *)

MaxPhrases == 3

\* a float threshold num / den, den > 0
Frac(num, den) == [num |-> num, den |-> den]

token_jaccard_thresh == Frac(6, 10)
semantic_thresh == Frac(9, 10)

DescriptorDeduper_stopwords ==
    {
      "a", "an", "the", "of", "with", "and", "or", "to",
      "in", "on", "at", "for", "from", "by", "into", "this",
      "that", "is", "are", "was", "were", "it", "its",
      "as", "up", "down", "over", "under", "around"
    }

\* re.sub(r"[^a-z0-9\s]", " ", s)
RECURSIVE BlankNonAlnum(_)
BlankNonAlnum(s) ==
    IF s = "" THEN ""
    ELSE IF Len(s) = 1
    THEN (IF \/ Contains(LowerChars, s) \/ Contains(DigitChars, s) \/ s = " "
          THEN s ELSE " ")
    ELSE LET half == Len(s) \div 2
         IN BlankNonAlnum(SubSeq(s, 1, half))
            \o BlankNonAlnum(SubSeq(s, half + 1, Len(s)))

_canonical_tokens(phrase) ==
    LET Content(t) == Len(t) > 1 /\ t \notin DescriptorDeduper_stopwords
    IN SelectSeq(StrSplit(BlankNonAlnum(StrLower(phrase))), Content)

\* variant: j > thresh
JaccardAbove(a, b, thresh) ==
    IF a = {} \/ b = {} THEN 0 > thresh.num
    ELSE Cardinality(a \cap b) * thresh.den > thresh.num * Cardinality(a \cup b)

\* j >= thresh for the j of lines 110-118: 0.0 when a set is empty, else
\* |a & b| / |a | b|
JaccardAtLeast(a, b, thresh) ==
    IF a = {} \/ b = {} THEN 0 >= thresh.num
    ELSE Cardinality(a \cap b) * thresh.den >= thresh.num * Cardinality(a \cup b)

\* the vectors of an embedder: pairs of small integers
Dot(v1, v2) == v1[1] * v2[1] + v1[2] * v2[2]

\* _cosine(v1, v2) >= thresh, for thresh > 0: 0.0 when a norm is 0
CosineAtLeast(v1, v2, thresh) ==
    /\ Dot(v1, v1) * Dot(v2, v2) # 0
    /\ Dot(v1, v2) > 0
    /\ Dot(v1, v2) * Dot(v1, v2) * thresh.den * thresh.den
          >= thresh.num * thresh.num * Dot(v1, v1) * Dot(v2, v2)

\* a deterministic embedder, one vector per phrase: phrases about a ball
\* point one way, the others another way, phrases without letters nowhere
Embedding(phrase) ==
    LET s == StrLower(phrase)
    IN IF Contains(s, "ball") THEN (IF Contains(s, "red") THEN <<3, 1>> ELSE <<1, 0>>)
       ELSE IF Contains(s, "cube") THEN <<0, 2>>
       ELSE IF _canonical_tokens(phrase) = <<>> THEN <<0, 0>>
       ELSE <<1, 3>>

\* self.embedder: None, an embedder that works or one whose encode raises
WorkingEmbedder == [encode |-> "returns"]
FailingEmbedder == [encode |-> "raises"]
EmbedderChoices == {None, WorkingEmbedder, FailingEmbedder}

\* variant: a vector that depends on the position in the batch
encode_by_position(embedder, phrases) ==
    IF embedder.encode = "raises" THEN Raised("Exception")
    ELSE Some([k \in DOMAIN phrases |-> IF k <= 2 THEN <<1, 0>> ELSE <<0, 1>>])

\* self.embedder.encode(phrases): Some(the array of vectors), or the exception
encode(embedder, phrases) ==
    IF embedder.encode = "raises" THEN Raised("Exception")
    ELSE Some([k \in DOMAIN phrases |-> Embedding(phrases[k])])

\* a DescriptorDeduper
DescriptorDeduper(thresh, embedder) ==
    [token_jaccard_thresh |-> thresh, embedder |-> embedder,
     semantic_thresh |-> semantic_thresh]

\* lines 102-141: the loop body for phrases[idx], on the lists kept so far;
\* embedder is self.embedder after lines 93-100
DedupStep(self, embedder, embeds, phrase, idx, kept) ==
    LET cand_tokens_set == Range(_canonical_tokens(phrase))
        token_duplicate ==
            \E k \in DOMAIN kept.token_sets :
               JaccardAtLeast(cand_tokens_set, kept.token_sets[k],
                              self.token_jaccard_thresh)
        embedding_used == ~token_duplicate /\ embedder # None /\ kept.embeds # None
        cand_vec == IF embeds # None THEN embeds.value[idx]
                    ELSE encode(embedder, <<phrase>>).value[1]
        embed_duplicate ==
            /\ embedding_used
            /\ \E k \in DOMAIN kept.embeds.value :
                  CosineAtLeast(cand_vec, kept.embeds.value[k], self.semantic_thresh)
        is_duplicate == token_duplicate \/ embed_duplicate
    IN [phrases |-> IF is_duplicate THEN kept.phrases
                    ELSE Append(kept.phrases, phrase),
        token_sets |-> IF is_duplicate THEN kept.token_sets
                       ELSE Append(kept.token_sets, cand_tokens_set),
        embeds |-> IF embedding_used /\ ~embed_duplicate
                   THEN Some(Append(kept.embeds.value, cand_vec))
                   ELSE kept.embeds,
        encode_calls |-> kept.encode_calls
                         + (IF embedding_used /\ embeds = None THEN 1 ELSE 0)]

RECURSIVE DedupLoop(_, _, _, _, _, _)
DedupLoop(self, embedder, embeds, phrases, idx, kept) ==
    IF idx > Len(phrases) THEN kept
    ELSE DedupLoop(self, embedder, embeds, phrases, idx + 1,
                   DedupStep(self, embedder, embeds, phrases[idx], idx, kept))

\* the loop of lines 102-141 from empty lists
DedupPass(self, embedder, embeds, kept_embeds, phrases, encode_calls) ==
    LET Result(kept) ==
            [kept |-> kept.phrases, embedder |-> embedder,
             encode_calls |-> kept.encode_calls]
    IN Result(DedupLoop(self, embedder, embeds, phrases, 1,
                        [phrases |-> <<>>, token_sets |-> <<>>,
                         embeds |-> kept_embeds, encode_calls |-> encode_calls]))

\* variant: the exception of encode leaves dedup
EncodeFailed_raise(self, phrases) == Raised("Exception")

\* lines 97-100: the except clause, and the call from there on
EncodeFailed(self, phrases) == DedupPass(self, None, None, None, phrases, 1)

\* DescriptorDeduper.dedup: the list returned, self.embedder after the call
\* and the number of calls of encode; or the exception raised
dedup(self, phrases) ==
    LET WithBatch(batch) ==
            IF batch = Raised("Exception") THEN EncodeFailed(self, phrases)
            ELSE DedupPass(self, self.embedder, batch, Some(<<>>), phrases, 1)
    IN IF phrases = <<>>
       THEN [kept |-> <<>>, embedder |-> self.embedder, encode_calls |-> 0]
       ELSE IF self.embedder = None
       THEN DedupPass(self, None, None, None, phrases, 0)
       ELSE WithBatch(encode(self.embedder, phrases))

PhraseChoices ==
    { "red shiny ball", "shiny red ball", "Red ball!", "up", "x on" }

ThreshChoices == {token_jaccard_thresh, Frac(5, 10), Frac(1, 1), Frac(0, 1)}

InitDedup ==
    /\ pc = "dedup"
    /\ NoRequest
    /\ args \in [phrases : SeqsUpTo(PhraseChoices, 0, MaxPhrases),
                 thresh : ThreshChoices,
                 embedder : EmbedderChoices]
    /\ ret = [calls |-> <<>>]

\* dedup on the list given, and then on the list it returned, by the same
\* DescriptorDeduper
CallDedup ==
    /\ pc = "dedup"
    /\ Len(ret.calls) < 2
    /\ ret.calls # <<>> => ret.calls[1] # Raised("Exception")
    /\ LET first == ret.calls = <<>>
           self == DescriptorDeduper(args.thresh,
                                     IF first THEN args.embedder
                                     ELSE ret.calls[1].embedder)
           phrases == IF first THEN args.phrases ELSE ret.calls[1].kept
       IN ret' = [calls |-> Append(ret.calls, dedup(self, phrases))]
    /\ UNCHANGED <<lock_vars, pc, detect_vars, observed, box, bbox, args>>

NextDedup == CallDedup

SpecDedup == InitDedup /\ [][NextDedup]_vars

\* the first call of dedup has returned a list
FirstCallReturned == pc = "dedup" /\ ret.calls # <<>> /\ ret.calls[1] # Raised("Exception")

\* the positions of kept in phrases, for a set K of positions
Restrict(phrases, K) ==
    LET Pos(n) == CHOOSE i \in K : Cardinality({j \in K : j <= i}) = n
    IN [n \in 1..Cardinality(K) |-> phrases[Pos(n)]]

\* C23: without an embedder dedup returns the phrases at the positions K of
\* the greedy single pass, in their order: a position is left out if and
\* only if the Jaccard similarity of its canonical token set with that of an
\* earlier position of K is at least token_jaccard_thresh.  With threshold
\* 0.5, ["red shiny ball", "shiny red ball"] gives the first one alone.
C23_GreedyTokenPass ==
    (FirstCallReturned /\ args.embedder = None)
        => LET phrases == args.phrases
               tokens == [i \in DOMAIN phrases |-> Range(_canonical_tokens(phrases[i]))]
               Similar(i, j) ==
                   IF tokens[i] = {} \/ tokens[j] = {} THEN args.thresh.num <= 0
                   ELSE Cardinality(tokens[i] \cap tokens[j]) * args.thresh.den
                           >= args.thresh.num * Cardinality(tokens[i] \cup tokens[j])
           IN /\ \E K \in SUBSET DOMAIN phrases :
                    /\ \A i \in DOMAIN phrases :
                          i \notin K <=> \E j \in K : j < i /\ Similar(i, j)
                    /\ ret.calls[1].kept = Restrict(phrases, K)
              /\ (phrases = <<"red shiny ball", "shiny red ball">>
                  /\ args.thresh = Frac(5, 10))
                    => ret.calls[1].kept = <<"red shiny ball">>

\* the example of the claim, and a phrase dropped at a similarity equal to
\* the threshold while a later one is kept
C23_Witness ==
    /\ FirstCallReturned
    /\ args.embedder = None
    /\ \/ /\ args.phrases = <<"red shiny ball", "shiny red ball">>
          /\ args.thresh = Frac(5, 10)
          /\ ret.calls[1].kept = <<"red shiny ball">>
       \/ /\ args.phrases = <<"red shiny ball", "shiny red ball", "up">>
          /\ args.thresh = Frac(1, 1)
          /\ ret.calls[1].kept = <<"red shiny ball", "up">>

C25_NoRepeatedPhrase ==
    FirstCallReturned
        => \A i, j \in DOMAIN ret.calls[1].kept :
              ret.calls[1].kept[i] = ret.calls[1].kept[j] => i = j

\* C26: when encode raises, dedup returns a list: self.embedder is None
\* afterwards, encode was called once, and the list is the one of the
\* token-only pass on the same phrases.
C26_EncodeFailureFallsBack ==
    (pc = "dedup" /\ ret.calls # <<>> /\ args.embedder = FailingEmbedder
       /\ args.phrases # <<>>)
        => /\ ret.calls[1] # Raised("Exception")
           /\ ret.calls[1].embedder = None
           /\ ret.calls[1].encode_calls = 1
           /\ ret.calls[1].kept
                = dedup(DescriptorDeduper(args.thresh, None), args.phrases).kept

\* encode raised on a list with a near-duplicate, which the token pass drops
C26_Witness ==
    /\ FirstCallReturned
    /\ args.embedder = FailingEmbedder
    /\ ret.calls[1].embedder = None
    /\ Len(args.phrases) >= 2
    /\ Len(ret.calls[1].kept) < Len(args.phrases)

----------------------------------------------------------------------------
(* FieldSpecBuilder and PromptBuilder: from a descriptor record to texts *)

PromptSpec(label, core, visual, locations, relations, orientations) ==
    [label |-> label, core |-> core, visual |-> visual, locations |-> locations,
     relations |-> relations, orientations |-> orientations]

\* str(v).strip() if v is not None else "", for the value of a dict key
_clean(v) == IF v = None \/ v = Missing THEN "" ELSE StrStrip(v.value)

\* FieldSpecBuilder.parse on a record with the keys label, name, description,
\* shape_and_color and location
parse(raw, label) ==
    LET desc_full == _clean(raw.description)
        first == StrStrip(FirstPart(desc_full, "."))
        core == IF desc_full = "" THEN ""
                ELSE IF first # "" THEN first ELSE desc_full
        visual == IF _clean(raw.shape_and_color) # ""
                  THEN <<_clean(raw.shape_and_color)>> ELSE <<>>
        locations == IF _clean(raw.location) # ""
                     THEN <<_clean(raw.location)>> ELSE <<>>
    IN PromptSpec(label, core, visual, locations, <<>>, <<>>)

\* SemanticRefiner.refine: the descriptor lists are rewritten by the language
\* analysis, label and core are left alone
refine(spec, refined) ==
    [spec EXCEPT !.visual = refined.visual, !.locations = refined.locations]

max_visual_descriptors == 4
max_prompt_words == 20
max_variants_per_tier == 5
clause_joiner == ", "

stopwords ==
    {
      "a", "across", "an", "and", "appearing", "appears", "are", "around",
      "as", "at", "be", "been", "being", "by", "composed", "for", "from",
      "her", "his", "in", "inside", "is", "it", "its", "located", "mostly",
      "of", "on", "or", "outside", "positioned", "primarily", "showing",
      "slightly", "that", "the", "their", "these", "this", "those",
      "through", "throughout", "to", "very", "was", "were", "with", "within"
    }

subject_split_words ==
    {
      "above", "at", "behind", "between", "by", "carrying", "falling",
      "featuring", "floating", "holding", "in", "near", "on", "placed",
      "resting", "set", "sitting", "standing", "that", "through", "under",
      "wearing", "where", "which", "while", "who", "with"
    }

label_modifier_tokens ==
    {
      "background", "big", "black", "blue", "bright", "brown", "center",
      "crisp", "dark", "deep", "delicate", "early", "foreground", "frame",
      "golden", "gray", "green", "grey", "hard", "huge", "large", "late",
      "luxurious", "majestic", "metallic", "muted", "new", "old",
      "prominent", "quiet", "red", "reflective", "rough", "silver", "small",
      "smooth", "snowy", "soft", "tiny", "translucent", "vibrant", "white",
      "wooden", "yellow", "young"
    }

plural_fallback_nouns ==
    {
      "bubble", "droplet", "leaf", "petal", "raindrop", "snowflake", "spark"
    }

generic_visual_descriptors ==
    {
      "big", "huge", "large", "large within frame", "large within scene",
      "large within the ring", "medium", "medium within frame",
      "medium within scene", "medium within the ring", "small",
      "small within frame", "small within scene", "small within the ring",
      "tiny"
    }

\* variant: two items fewer
Take_two_fewer(s, n) == SubSeq(s, 1, IF n - 2 < Len(s) THEN n - 2 ELSE Len(s))

\* s[:n] of a list
Take(s, n) == SubSeq(s, 1, IF n < Len(s) THEN n ELSE Len(s))

\* lst, max_items = None is written max_items = 0
_join_clause_list(lst, max_items) ==
    LET NotBlank(s) == StrStrip(s) # ""
        kept == SelectSeq(lst, NotBlank)
        cleaned == [k \in DOMAIN kept |-> StrStrip(kept[k])]
    IN IF cleaned = <<>> THEN None
       ELSE Some(StrJoin(IF max_items > 0 THEN Take(cleaned, max_items) ELSE cleaned,
                         clause_joiner))

\* variant: the text is returned whole
_truncate_to_word_limit_whole(text, max_words) == text

_truncate_to_word_limit(text, max_words) ==
    LET Cut(truncated) ==
            LET comma == RFind(truncated, ", ")
                period == RFind(truncated, ". ")
            IN IF comma > Len(truncated) \div 2 THEN SubSeq(truncated, 1, comma)
               ELSE IF period > Len(truncated) \div 2 THEN SubSeq(truncated, 1, period)
               ELSE truncated
        Limit(words) ==
            IF Len(words) <= max_words THEN text
            ELSE Cut(StrJoin(Take(words, max_words), " "))
    IN Limit(StrSplit(text))

\* re.sub(r"\s+", " ", text).strip()
_normalize_spaces(text) == StrJoin(StrSplit(text), " ")

\* re.sub(r"[^A-Za-z0-9\s\-']", " ", text)
RECURSIVE BlankOtherChars(_)
BlankOtherChars(s) ==
    IF s = "" THEN ""
    ELSE IF Len(s) = 1
    THEN (IF \/ Contains(UpperChars, s) \/ Contains(LowerChars, s)
             \/ Contains(DigitChars, s) \/ Contains(" -'", s)
          THEN s ELSE " ")
    ELSE LET half == Len(s) \div 2
         IN BlankOtherChars(SubSeq(s, 1, half))
            \o BlankOtherChars(SubSeq(s, half + 1, Len(s)))

\* the words of ^(a|an|the|this|that|these|those|some|several|many)\s+
LeadingDeterminers ==
    {"a", "an", "the", "this", "that", "these", "those", "some", "several", "many"}

\* position (1-based) of the first word from the third on that is a split
\* word, Len(words) + 1 when there is none
RECURSIVE CutIndex(_, _)
CutIndex(words, k) ==
    IF k > Len(words) THEN k
    ELSE IF k >= 3 /\ StrLower(words[k]) \in subject_split_words THEN k
    ELSE CutIndex(words, k + 1)

_extract_subject_phrase(text) ==
    LET Words(cleaned) ==
            IF Len(cleaned) >= 2 /\ StrLower(cleaned[1]) \in LeadingDeterminers
            THEN Tail(cleaned) ELSE cleaned
        Subject(words) == StrJoin(SubSeq(words, 1, CutIndex(words, 1) - 1), " ")
        OrObject(subject) == IF subject = "" THEN "object" ELSE subject
    IN OrObject(Subject(Words(StrSplit(BlankOtherChars(text)))))

IsTokenChar(c) == Contains(LowerChars, c) \/ Contains(DigitChars, c)

\* number of leading characters of s in [a-z0-9]
RECURSIVE TokenRun(_)
TokenRun(s) == IF s = "" \/ ~IsTokenChar(Head(s)) THEN 0 ELSE 1 + TokenRun(Tail(s))

\* re.findall(r"[a-z0-9]+(?:[-'][a-z0-9]+)?", s) on a lower-case s
RECURSIVE FindTokens(_)
FindTokens(s) ==
    LET Token(u, len) == <<SubSeq(u, 1, len)>> \o FindTokens(SubSeq(u, len + 1, Len(u)))
        WithMore(u, n, more) == Token(u, IF more > 0 THEN n + 1 + more ELSE n)
        More(rest) == IF Len(rest) >= 2 /\ Contains("-'", Head(rest))
                      THEN TokenRun(Tail(rest)) ELSE 0
        AfterRun(u, n) == WithMore(u, n, More(SubSeq(u, n + 1, Len(u))))
        From(u) == AfterRun(u, TokenRun(u))
        Tokens(at) ==
            IF at = {} THEN <<>>
            ELSE From(SubSeq(s, CHOOSE i \in at : \A j \in at : i <= j, Len(s)))
    IN Tokens({i \in 1..Len(s) : IsTokenChar(SubSeq(s, i, i))})

_tokenize(text) == FindTokens(StrLower(text))

_content_tokens(text) ==
    LET NotStopword(t) == t \notin stopwords
    IN SelectSeq(_tokenize(text), NotStopword)

SingularIrregular ==
    [men |-> "man", women |-> "woman", people |-> "person", children |-> "child",
     mice |-> "mouse", geese |-> "goose", teeth |-> "tooth", feet |-> "foot"]

_singularize(token) ==
    IF token \in DOMAIN SingularIrregular THEN SingularIrregular[token]
    ELSE IF EndsWith(token, "ies") /\ Len(token) > 4
    THEN SubSeq(token, 1, Len(token) - 3) \o "y"
    ELSE IF EndsWith(token, "ses") /\ Len(token) > 4
    THEN SubSeq(token, 1, Len(token) - 2)
    ELSE IF EndsWith(token, "s") /\ Len(token) > 3
    THEN SubSeq(token, 1, Len(token) - 1)
    ELSE token

PluralIrregular ==
    [man |-> "men", woman |-> "women", person |-> "people", child |-> "children",
     mouse |-> "mice", goose |-> "geese", tooth |-> "teeth", foot |-> "feet"]

_pluralize(token) ==
    IF token \in DOMAIN PluralIrregular THEN PluralIrregular[token]
    ELSE IF /\ EndsWith(token, "y")
            /\ Len(token) > 2
            /\ ~Contains("aeiou", SubSeq(token, Len(token) - 1, Len(token) - 1))
    THEN SubSeq(token, 1, Len(token) - 1) \o "ies"
    ELSE IF EndsWith(token, "s") THEN token
    ELSE token \o "s"

_looks_like_modifier(token) == EndsWith(token, "ly")

_is_numeric_like(token) ==
    \E k \in 1..Len(token) : Contains(DigitChars, SubSeq(token, k, k))

\* Optional[str]
_extract_head_token(text) ==
    LET IsHead(t) == /\ ~_is_numeric_like(t)
                     /\ t \notin label_modifier_tokens
                     /\ ~_looks_like_modifier(t)
        NotNumeric(t) == ~_is_numeric_like(t)
        HeadOf(tokens) ==
            IF tokens = <<>> THEN None
            ELSE IF LastWhere(tokens, IsHead) # None THEN LastWhere(tokens, IsHead)
            ELSE IF LastWhere(tokens, NotNumeric) # None
            THEN LastWhere(tokens, NotNumeric)
            ELSE Some(tokens[Len(tokens)])
    IN HeadOf(_content_tokens(text))

_noun_variants(text) ==
    LET Variants(head) ==
            LET singular == _singularize(head.value)
                plural == _pluralize(head.value)
            IN IF head = None \/ head.value = "" THEN <<>>
               ELSE <<head.value>>
                    \o (IF singular # head.value THEN <<singular>> ELSE <<>>)
                    \o (IF /\ singular = head.value
                           /\ head.value \in plural_fallback_nouns
                           /\ plural # head.value
                        THEN <<plural>> ELSE <<>>)
    IN Variants(_extract_head_token(text))

extract_label(text) ==
    LET Label(subject, head) ==
            IF head # None /\ head.value # "" THEN head.value
            ELSE IF StrStrip(subject) = "" THEN "object"
            ELSE StrJoin(Take(StrSplit(subject), 4), " ")
        OfSubject(subject) == Label(subject, _extract_head_token(subject))
    IN OfSubject(_extract_subject_phrase(text))

RECURSIVE DedupFrom(_, _)
DedupFrom(texts, seen) ==
    IF texts = <<>> THEN <<>>
    ELSE LET norm == StrLower(_normalize_spaces(Head(texts)))
         IN IF norm = "" \/ norm \in seen THEN DedupFrom(Tail(texts), seen)
            ELSE <<_normalize_spaces(Head(texts))>>
                 \o DedupFrom(Tail(texts), seen \cup {norm})

_dedup_texts(texts) == DedupFrom(texts, {})

\* Optional[str]
_select_key_visual_descriptor(visuals) ==
    LET Distinctive(d) ==
            LET cleaned == StrLower(_normalize_spaces(d))
            IN cleaned # "" /\ cleaned \notin generic_visual_descriptors
        first == FirstWhere(visuals, Distinctive)
    IN IF first # None THEN first
       ELSE IF visuals # <<>> THEN Some(visuals[1])
       ELSE None

\* (spec.core or "object").strip().rstrip(".")
CoreText(spec) ==
    RStripChars(StrStrip(IF spec.core = "" THEN "object" ELSE spec.core), ".")

_base_prompt(spec, tier) ==
    LET spatial_bits ==
            (IF spec.locations # <<>>
             THEN <<"located at " \o spec.locations[1]>> ELSE <<>>)
            \o (IF spec.relations # <<>> THEN <<spec.relations[1]>> ELSE <<>>)
            \o (IF spec.orientations # <<>>
                THEN <<"oriented " \o spec.orientations[1]>> ELSE <<>>)
        Sentences(visual_clause, spatial_clause) ==
            <<CoreText(spec)>>
            \o (IF tier \in {CORE_VISUAL, CORE_VISUAL_SPATIAL} /\ visual_clause # None
                THEN <<RStripChars(visual_clause.value, ".")>> ELSE <<>>)
            \o (IF tier = CORE_VISUAL_SPATIAL /\ spatial_clause # None
                THEN <<RStripChars(spatial_clause.value, ".")>> ELSE <<>>)
    IN StrJoin(Sentences(_join_clause_list(spec.visual, max_visual_descriptors),
                         _join_clause_list(spatial_bits, 0)),
               ". ")

\* the candidates of build_variants before cleaning, lines 404-419
VariantCandidates(spec, tier) ==
    LET core_text == CoreText(spec)
        VisualTexts(subject, noun_variants, key_visual) ==
            IF /\ tier \in {CORE_VISUAL, CORE_VISUAL_SPATIAL}
               /\ key_visual # None
               /\ key_visual.value # ""
            THEN <<subject \o ". " \o RStripChars(key_visual.value, ".")>>
                 \o (IF noun_variants # <<>>
                     THEN <<noun_variants[1] \o ". "
                              \o RStripChars(key_visual.value, ".")>>
                     ELSE <<>>)
            ELSE <<>>
        CandidateTexts(subject, noun_variants) ==
            <<subject>> \o noun_variants \o <<core_text>>
            \o VisualTexts(subject, noun_variants,
                           _select_key_visual_descriptor(spec.visual))
            \o <<_base_prompt(spec, tier)>>
        OfSubject(subject) == CandidateTexts(subject, _noun_variants(subject))
    IN OfSubject(_extract_subject_phrase(core_text))

build_variants(spec, tier) ==
    LET NotBlank(text) == StrStrip(text) # ""
        Cleaned(kept) ==
            [k \in DOMAIN kept |->
                _truncate_to_word_limit(RStripChars(StrStrip(kept[k]), "."),
                                        max_prompt_words)]
    IN Take(_dedup_texts(Cleaned(SelectSeq(VariantCandidates(spec, tier), NotBlank))),
            max_variants_per_tier)

\* variant: the subject phrase comes before the phrase itself
build_freeform_variants_subject_first(prompt_text) ==
    LET core == StrStrip(prompt_text)
    IN IF core = "" THEN <<>>
       ELSE _dedup_texts(<<_extract_subject_phrase(core), core>>)

build_freeform_variants(prompt_text) ==
    LET core == StrStrip(prompt_text)
        Deduped(subject) == _dedup_texts(<<core, subject>> \o _noun_variants(subject))
        Truncated(kept) ==
            [k \in DOMAIN kept |-> _truncate_to_word_limit(kept[k], max_prompt_words)]
    IN IF core = "" THEN <<>>
       ELSE Truncated(Take(Deduped(_extract_subject_phrase(core)),
                           max_variants_per_tier))

\* variant: the core text as it is, no fallback
build_core_text(spec, tier) == StrStrip(spec.core)

build(spec, tier) ==
    LET First(variants) == IF variants # <<>> THEN variants[1] ELSE "object"
    IN First(build_variants(spec, tier))

----------------------------------------------------------------------------
(* PromptPipeline on texts: labels and plan sets *)

MaxIndex == 2

\* a dict value that is truthy: the key is present, not None and not ""
Truthy(v) == v # Missing /\ v # None /\ v.value # ""

\* str(obj.get(a) or obj.get(b) or "")
FirstTruthy(a, b) == IF Truthy(a) THEN a.value ELSE IF Truthy(b) THEN b.value ELSE ""

\* re.fullmatch(r"object_\d+", label.strip().lower())
_is_placeholder_label(label) ==
    LET s == StrLower(StrStrip(label))
    IN /\ StartsWith(s, "object_")
       /\ Len(s) > Len("object_")
       /\ \A k \in (Len("object_") + 1)..Len(s) : Contains(DigitChars, SubSeq(s, k, k))

_derive_label(obj, idx) ==
    LET raw_label == StrStrip(FirstTruthy(obj.label, obj.name))
        desc == StrStrip(FirstTruthy(obj.description, None))
    IN IF raw_label # "" THEN raw_label
       ELSE IF desc # "" THEN extract_label(desc)
       ELSE "object_" \o ToString(idx)

_render_tier_variants(spec, tier) ==
    LET OrBuilt(variants) == IF variants # <<>> THEN variants ELSE <<build(spec, tier)>>
    IN OrBuilt(build_variants(spec, tier))

\* lines 75-85 of build_from_objects: the spec the plans are rendered from
SpecOfObject(obj, idx, refined) ==
    LET Upgrade(spec, upgraded) ==
            IF /\ _is_placeholder_label(spec.label)
               /\ upgraded # ""
               /\ ~_is_placeholder_label(upgraded)
            THEN [spec EXCEPT !.label = upgraded]
            ELSE spec
        OfSpec(spec) == Upgrade(spec, extract_label(spec.core))
    IN OfSpec(refine(parse(obj, _derive_label(obj, idx)), refined))

RECURSIVE DedupTextPlans(_, _, _)
DedupTextPlans(label, cands, seen_texts) ==
    IF cands = <<>> THEN <<>>
    ELSE LET c == Head(cands)
             normalized == StrLower(StrStrip(c.text))
         IN IF normalized = "" \/ normalized \in seen_texts
            THEN DedupTextPlans(label, Tail(cands), seen_texts)
            ELSE <<PromptPlan(label, c.tier, c.text)>>
                 \o DedupTextPlans(label, Tail(cands), seen_texts \cup {normalized})

\* lines 87-112 of build_from_objects: the plan set of one spec
PlanSetOfSpec(spec) ==
    LET rendered == [tier \in PromptTier |-> _render_tier_variants(spec, tier)]
        OrObject(plans) ==
            IF plans = <<>> THEN <<PromptPlan(spec.label, CORE, "object")>> ELSE plans
    IN PromptPlanSet(spec.label,
                     OrObject(DedupTextPlans(spec.label, TierCandidates(rendered), {})))

\* the loop body of build_from_prompts: no plan set for a blank prompt
PlanSetsOfPrompt(prompt) ==
    LET text == StrStrip(prompt)
        OrText(freeform) == IF freeform = <<>> THEN <<text>> ELSE freeform
        Plans(variant_texts) ==
            [k \in DOMAIN variant_texts |-> PromptPlan(text, CORE, variant_texts[k])]
    IN IF text = "" THEN <<>>
       ELSE <<PromptPlanSet(text, Plans(OrText(build_freeform_variants(text))))>>

\* every call _truncate_to_word_limit(text, max_prompt_words) of
\* build_variants, with its result
TruncationsOfSpec(spec, tier) ==
    LET NotBlank(text) == StrStrip(text) # ""
        TruncateCall(text) ==
            [text |-> text, result |-> _truncate_to_word_limit(text, max_prompt_words)]
        Calls(kept) == [k \in DOMAIN kept |-> TruncateCall(RStripChars(StrStrip(kept[k]), "."))]
    IN Calls(SelectSeq(VariantCandidates(spec, tier), NotBlank))

\* the same for build_freeform_variants
TruncationsOfPrompt(prompt_text) ==
    LET core == StrStrip(prompt_text)
        Deduped(subject) == _dedup_texts(<<core, subject>> \o _noun_variants(subject))
        Calls(kept) ==
            [k \in DOMAIN kept |->
                [text |-> kept[k],
                 result |-> _truncate_to_word_limit(kept[k], max_prompt_words)]]
    IN IF core = "" THEN <<>>
       ELSE Calls(Take(Deduped(_extract_subject_phrase(core)), max_variants_per_tier))

TwelveWords == "W0 W1 W2 W3 W4 W5 W6 W7 W8 W9 W10 W11"
TwelveMore == "V0 V1 V2 V3 V4 V5 V6 V7 V8 V9 V10 V11"

\* descriptor records: label, name, description, shape_and_color, location
ObjectRecord(label, name, description, shape_and_color, location) ==
    [label |-> label, name |-> name, description |-> description,
     shape_and_color |-> shape_and_color, location |-> location]

ObjectRecordChoices ==
    { ObjectRecord(Missing, Missing, Missing, Missing, Missing),
      ObjectRecord(Missing, Missing, None, None, Missing),
      ObjectRecord(Missing, Missing, Some("   "), Some(" "), Missing),
      ObjectRecord(Missing, Missing, Some("A red car. Shiny."), Some("red"), Some("left")),
      ObjectRecord(Missing, Missing, Some(". foo"), Missing, Missing),
      ObjectRecord(Missing, Missing, Some("..."), Some("small"), Missing),
      ObjectRecord(Missing, Missing, Some("A tall woman with a hat"), Missing, Missing),
      ObjectRecord(Some("Vase"), Missing, Some("Blue vase with flowers"), Missing, Missing),
      ObjectRecord(Some(" Vase "), Some("pot"), Missing, Missing, Missing),
      ObjectRecord(None, Some("pot"), Some("A clay pot"), Missing, Missing),
      ObjectRecord(Some("  "), Some("pot"), Missing, Missing, Missing),
      ObjectRecord(Some("object_3"), Missing, Some("A red car"), Missing, Missing),
      ObjectRecord(Missing, Missing, Some("A red car"), Some("."), Missing),
      ObjectRecord(Some("Object_7"), Missing, Missing, Missing, Missing),
      ObjectRecord(Missing, Missing, Some(TwelveWords \o ", " \o TwelveMore),
                   Some("glossy"), Missing),
      ObjectRecord(Missing, Missing, Some("x, " \o TwelveWords \o " " \o TwelveMore),
                   Missing, Missing),
      ObjectRecord(Some("long"), Missing, Some(TwelveWords \o ". tail"),
                   Some(TwelveMore), Some("left")),
      ObjectRecord(Some("both"), Missing, Some(TwelveWords \o ", x0 x1 x2 x3"),
                   Some(TwelveMore), Missing),
      ObjectRecord(Missing, Missing,
                   Some("A vibrant red gemstone, cut into a teardrop shape."),
                   Some("deep red, teardrop"), Missing),
      ObjectRecord(Missing, Missing, Some("The red  cars"),
                   Some(TwelveWords \o " " \o TwelveMore), Missing),
      ObjectRecord(Missing, Missing, Some("A petal. Pink."), Some("pale pink."), Missing) }

\* what the language analysis of SemanticRefiner adds to the lists
Refined(visual, locations) == [visual |-> visual, locations |-> locations]

\* the phrases the language analysis appends (lines 69-147): none, two
\* visual phrases, a location
AppendedChoices ==
    { Refined(<<>>, <<>>),
      Refined(<<"small", "shiny red paint">>, <<>>),
      Refined(<<>>, <<"on a table">>) }

\* lines 61-65: the lists of parse with the phrases appended, each passed
\* through the default DescriptorDeduper
RefinedChoices(parsed) ==
    { Refined(dedup(DescriptorDeduper(token_jaccard_thresh, None),
                    parsed.visual \o appended.visual).kept,
              dedup(DescriptorDeduper(token_jaccard_thresh, None),
                    parsed.locations \o appended.locations).kept) :
        appended \in AppendedChoices }

PromptStringChoices ==
    { "", "   ", "car", "  A red car  ", "the tall woman with a hat",
      "3 small snowflakes falling slowly", "!!!",
      TwelveWords \o ", " \o TwelveMore,
      "x, " \o TwelveWords \o " " \o TwelveMore,
      TwelveWords \o " " \o TwelveMore,
      "a small wooden chair", "a  small chair",
      TwelveWords \o " V0 V1 V2 V3 V4 V5 V6 V7 tail!" }

\* the lists given to build_from_prompts: one phrase, or several with blank
\* ones among them
PromptListChoices ==
    {<<prompt>> : prompt \in PromptStringChoices}
        \cup {<<"   ", "car", "", "  A red car  ">>, <<"car", "Car">>}

\* self.parser.parse raises inside SemanticRefiner.refine
ParserRaised == Raised("Exception")

\* PromptSpecs given to PromptBuilder directly
PromptSpecChoices ==
    { PromptSpec("x", "", <<>>, <<>>, <<>>, <<>>),
      PromptSpec("x", "  ", <<"small">>, <<>>, <<>>, <<>>),
      PromptSpec("x", ". .", <<>>, <<>>, <<>>, <<>>),
      PromptSpec("x", "...", <<"small", "  ">>, <<>>, <<>>, <<>>),
      PromptSpec("x", "petal", <<"small", "pale pink.">>, <<"left">>, <<"next to x">>,
                 <<"up.">>),
      PromptSpec("x", TwelveWords, <<TwelveMore>>, <<>>, <<>>, <<>>),
      PromptSpec("x", TwelveWords, <<"a, b", "c", "d", "e", "f">>, <<"left">>,
                 <<TwelveMore>>, <<>>) }

InitPrompt ==
    /\ pc = "build"
    /\ NoRequest
    /\ \/ \E obj \in ObjectRecordChoices, idx \in 0..MaxIndex :
            \E refined \in RefinedChoices(parse(obj, "")) \cup {ParserRaised} :
               args = [kind |-> "object", obj |-> obj, idx |-> idx, refined |-> refined]
       \/ \E prompts \in PromptListChoices : args = [kind |-> "prompt", prompts |-> prompts]
       \/ \E spec \in PromptSpecChoices : args = [kind |-> "spec", spec |-> spec]
    /\ ret = None

\* one turn of the loop of build_from_objects
BuildFromObject ==
    /\ pc = "build"
    /\ args.kind = "object"
    /\ args.refined # ParserRaised
    /\ LET Returned(spec) ==
               [parsed |-> parse(args.obj, _derive_label(args.obj, args.idx)),
                spec |-> spec,
                plan_sets |-> <<PlanSetOfSpec(spec)>>,
                variants |-> [tier \in PromptTier |-> build_variants(spec, tier)],
                built |-> [tier \in PromptTier |-> build(spec, tier)],
                truncations |-> Flatten([k \in 1..Len(tier_order) |->
                                    TruncationsOfSpec(spec, tier_order[k])])]
       IN ret' = Returned(SpecOfObject(args.obj, args.idx, args.refined))
    /\ pc' = "built"
    /\ UNCHANGED <<lock_vars, detect_vars, observed, box, bbox, args>>

\* line 79 of build_from_objects: the exception of refine is not caught and
\* leaves build_from_objects
RefineRaises ==
    /\ pc = "build"
    /\ args.kind = "object"
    /\ args.refined = ParserRaised
    /\ ret' = args.refined
    /\ pc' = "raised"
    /\ UNCHANGED <<lock_vars, detect_vars, observed, box, bbox, args>>

\* build_from_prompts on a list of phrases
BuildFromPrompt ==
    /\ pc = "build"
    /\ args.kind = "prompt"
    /\ ret' = [plan_sets |-> Flatten([k \in DOMAIN args.prompts |->
                                  PlanSetsOfPrompt(args.prompts[k])]),
               variants |-> [tier \in {CORE} |->
                               Flatten([k \in DOMAIN args.prompts |->
                                   build_freeform_variants(args.prompts[k])])],
               truncations |-> Flatten([k \in DOMAIN args.prompts |->
                                   TruncationsOfPrompt(args.prompts[k])])]
    /\ pc' = "built"
    /\ UNCHANGED <<lock_vars, detect_vars, observed, box, bbox, args>>

AllTiers == <<CORE, CORE_VISUAL, CORE_VISUAL_SPATIAL>>

\* PromptBuilder.build and build_variants on a spec, for every tier
Build ==
    /\ pc = "build"
    /\ args.kind = "spec"
    /\ ret' = [spec |-> args.spec,
               plan_sets |-> <<>>,
               variants |-> [tier \in PromptTier |-> build_variants(args.spec, tier)],
               built |-> [tier \in PromptTier |-> build(args.spec, tier)],
               truncations |-> Flatten([k \in 1..Len(AllTiers) |->
                                   TruncationsOfSpec(args.spec, AllTiers[k])])]
    /\ pc' = "built"
    /\ UNCHANGED <<lock_vars, detect_vars, observed, box, bbox, args>>

NextPrompt == BuildFromObject \/ RefineRaises \/ BuildFromPrompt \/ Build

SpecPrompt == InitPrompt /\ [][NextPrompt]_vars

\* the description of a record is absent, None or blank
NoDescription(obj) ==
    obj.description \in {Missing, None} \/ StrStrip(obj.description.value) = ""

\* C17 as claimed: for every descriptor record, those without a description
\* field or with a blank or None description included, the core of
\* FieldSpecBuilder.parse is a non-empty string: "object" when the
\* description is absent or blank, otherwise the text before the first
\* period, or the full field.
C17_CoreNeverEmpty ==
    (pc = "built" /\ args.kind = "object")
        => LET core == ret.parsed.core
           IN /\ core # ""
              /\ IF NoDescription(args.obj) THEN core = "object"
                 ELSE LET desc == StrStrip(args.obj.description.value)
                      IN core \in {StrStrip(FirstPart(desc, ".")), desc}

\* the field of a record holds a text that is not blank
NonBlank(v) == v \notin {Missing, None} /\ StrStrip(v.value) # ""

\* C18 as claimed: the label of the plan set of record i is the explicit
\* label, or else the name, when that is non-blank; otherwise a short label
\* extracted from a non-blank description; otherwise the placeholder
\* "object_<i>".  An explicit label is never replaced.
C18_LabelOfRecord ==
    (pc = "built" /\ args.kind = "object")
        => LET obj == args.obj
               label == ret.plan_sets[1].label
           IN IF NonBlank(obj.label) THEN label = StrStrip(obj.label.value)
              ELSE IF NonBlank(obj.name) THEN label = StrStrip(obj.name.value)
              ELSE IF NonBlank(obj.description)
              THEN label = extract_label(StrStrip(obj.description.value))
              ELSE label = "object_" \o ToString(args.idx)

\* C19: no rendered prompt is empty: build gives a non-empty text for every
\* spec and tier ("object" when the core is empty), every plan set built from
\* a record or from a free-text prompt has at least one plan, and the text of
\* every plan is non-empty.
C19_NoEmptyPrompt ==
    pc = "built"
        => /\ args.kind \in {"object", "spec"}
                => \A tier \in PromptTier :
                      /\ StrStrip(ret.built[tier]) # ""
                      /\ ret.spec.core = "" => ret.built[tier] = "object"
           /\ \A k \in DOMAIN ret.plan_sets :
                 /\ ret.plan_sets[k].plans # <<>>
                 /\ \A j \in DOMAIN ret.plan_sets[k].plans :
                       StrStrip(ret.plan_sets[k].plans[j].text) # ""

\* the worst case: a spec with an empty core rendered as "object", and a
\* record without any text that still gets a plan
C19_Witness ==
    /\ pc = "built"
    /\ \/ args.kind = "spec" /\ args.spec.core = "" /\ ret.built[CORE] = "object"
       \/ /\ args.kind = "object"
          /\ NoDescription(args.obj)
          /\ ret.plan_sets[1].plans = <<PromptPlan(ret.spec.label, CORE, "object")>>

\* the first max_prompt_words words of a text, joined by single spaces
FirstWords(text) == StrJoin(Take(StrSplit(text), max_prompt_words), " ")

\* result is text cut at the last occurrence of sep, which lies past the
\* midpoint of text
CutAtLast(result, text, sep) ==
    /\ Contains(text, sep)
    /\ RFind(text, sep) > Len(text) \div 2
    /\ result = SubSeq(text, 1, RFind(text, sep))

\* C20: every text returned by build, build_variants and
\* build_freeform_variants has at most max_prompt_words words; a text within
\* the limit is kept whole, and a longer one is cut to its first
\* max_prompt_words words, or at the last ", " or ". " among them when that
\* separator lies past the midpoint of the cut text.
C20_WordLimit ==
    pc = "built"
        => /\ \A tier \in DOMAIN ret.variants :
                 \A k \in DOMAIN ret.variants[tier] :
                    Len(StrSplit(ret.variants[tier][k])) <= max_prompt_words
           /\ args.kind \in {"object", "spec"}
                => \A tier \in PromptTier :
                      Len(StrSplit(ret.built[tier])) <= max_prompt_words
           /\ \A k \in DOMAIN ret.truncations :
                 LET c == ret.truncations[k]
                 IN /\ Len(StrSplit(c.result)) <= max_prompt_words
                    /\ IF Len(StrSplit(c.text)) <= max_prompt_words
                       THEN c.result = c.text
                       ELSE \/ c.result = FirstWords(c.text)
                            \/ CutAtLast(c.result, FirstWords(c.text), ", ")
                            \/ CutAtLast(c.result, FirstWords(c.text), ". ")

\* a text of more than max_prompt_words words was cut at a separator, and
\* another one was cut after max_prompt_words words
C20_Witness ==
    /\ pc = "built"
    /\ \E k \in DOMAIN ret.truncations :
          LET c == ret.truncations[k]
          IN /\ Len(StrSplit(c.text)) > max_prompt_words
             /\ c.result # FirstWords(c.text)
    /\ \E k \in DOMAIN ret.truncations :
          LET c == ret.truncations[k]
          IN /\ Len(StrSplit(c.text)) > max_prompt_words
             /\ c.result = FirstWords(c.text)

\* the first sentence of a description: the text before its first period
FirstSentence(description) == StrStrip(FirstPart(StrStrip(description), "."))

\* a text with its runs of spaces collapsed
SingleSpaced(text) == StrJoin(StrSplit(text), " ")

\* a record of C21: the first sentence of the description fits the word
\* limit, and shape_and_color is not blank and not generic
HasSentenceAndVisual(obj) ==
    /\ NonBlank(obj.description)
    /\ FirstSentence(obj.description.value) # ""
    /\ Len(StrSplit(FirstSentence(obj.description.value))) <= max_prompt_words
    /\ NonBlank(obj.shape_and_color)
    /\ StrLower(SingleSpaced(obj.shape_and_color.value))
          \notin generic_visual_descriptors

TrimmedPhrases(prompts) ==
    LET NotBlank(prompt) == StrStrip(prompt) # ""
        kept == SelectSeq(prompts, NotBlank)
    IN [k \in DOMAIN kept |-> StrStrip(kept[k])]

\* C22 as claimed: build_from_prompts returns one plan set per non-blank
\* phrase, in input order; its label is the trimmed phrase, its plans all
\* have tier CORE, and the text of its first plan is the trimmed phrase.
C22_FirstPlanIsPhrase ==
    (pc = "built" /\ args.kind = "prompt")
        => LET phrases == TrimmedPhrases(args.prompts)
           IN /\ Len(ret.plan_sets) = Len(phrases)
              /\ \A k \in DOMAIN ret.plan_sets :
                    /\ ret.plan_sets[k].label = phrases[k]
                    /\ ret.plan_sets[k].plans # <<>>
                    /\ \A j \in DOMAIN ret.plan_sets[k].plans :
                          ret.plan_sets[k].plans[j].tier = CORE
                    /\ ret.plan_sets[k].plans[1].text = phrases[k]

\* C22, amended: one plan set per non-blank phrase, in input order; its
\* label is the trimmed phrase and its plans all have tier CORE.  The text
\* of its first plan is the trimmed phrase with its runs of spaces
\* collapsed when that has at most max_prompt_words words, and otherwise a
\* beginning of it of at most max_prompt_words words.
C22_OneSetPerPhrase ==
    (pc = "built" /\ args.kind = "prompt")
        => LET phrases == TrimmedPhrases(args.prompts)
           IN /\ Len(ret.plan_sets) = Len(phrases)
              /\ \A k \in DOMAIN ret.plan_sets :
                    LET first == ret.plan_sets[k].plans[1].text
                    IN /\ ret.plan_sets[k].label = phrases[k]
                       /\ ret.plan_sets[k].plans # <<>>
                       /\ \A j \in DOMAIN ret.plan_sets[k].plans :
                             ret.plan_sets[k].plans[j].tier = CORE
                       /\ IF Len(StrSplit(phrases[k])) <= max_prompt_words
                          THEN first = SingleSpaced(phrases[k])
                          ELSE /\ StartsWith(SingleSpaced(phrases[k]), first)
                               /\ first # ""
                               /\ Len(StrSplit(first)) <= max_prompt_words

\* a list with blank phrases among the others, and the example of the claim
C22_Witness ==
    /\ pc = "built"
    /\ args.kind = "prompt"
    /\ \/ /\ args.prompts = <<"   ", "car", "", "  A red car  ">>
          /\ Len(ret.plan_sets) = 2
          /\ ret.plan_sets[1].label = "car"
          /\ ret.plan_sets[2].plans[1] = PromptPlan("A red car", CORE, "A red car")
       \/ /\ args.prompts = <<"a small wooden chair">>
          /\ ret.plan_sets[1].plans[1].text = "a small wooden chair"

\* C27 as claimed: when the parser raises while an object is processed,
\* build_from_objects still returns: the failure is caught and the plan set
\* is built from the lists FieldSpecBuilder.parse gave.
C27_ParserFailureCaught ==
    (args.kind = "object" /\ args.refined = ParserRaised /\ pc # "build")
        => /\ pc = "built"
           /\ ret.plan_sets
                = <<PlanSetOfSpec(SpecOfObject(args.obj, args.idx,
                       Refined(parse(args.obj, "").visual,
                               parse(args.obj, "").locations)))>>

\* C29 as claimed: in every plan set returned by build_from_objects or
\* build_from_prompts no two plans have the same text after trimming and
\* lower-casing, truncated texts included.
C29_NoRepeatedPlanText ==
    (pc = "built" /\ args.kind \in {"object", "prompt"})
        => \A k \in DOMAIN ret.plan_sets :
              \A i, j \in DOMAIN ret.plan_sets[k].plans :
                 StrLower(StrStrip(ret.plan_sets[k].plans[i].text))
                    = StrLower(StrStrip(ret.plan_sets[k].plans[j].text))
                    => i = j

\* the plan sets of build_from_objects alone
C29_NoRepeatedPlanTextOfObjects ==
    (pc = "built" /\ args.kind = "object")
        => \A k \in DOMAIN ret.plan_sets :
              \A i, j \in DOMAIN ret.plan_sets[k].plans :
                 StrLower(StrStrip(ret.plan_sets[k].plans[i].text))
                    = StrLower(StrStrip(ret.plan_sets[k].plans[j].text))
                    => i = j

----------------------------------------------------------------------------
(* SAM3Model.detect called from several executor threads at once *)

MaxThreads == 2

\* one executor thread per request (run_in_executor, lines 108-112)
Threads == 1..MaxThreads

\* the lock held by thread t
HeldBy(t) == [owner |-> t]

\* the image of the request thread t serves
ImageOf(t) == [request |-> t]

\* what set_text_prompt leaves in the state: boxes, scores and masks computed
\* from an image and a prompt
Detections(image, prompt) == [image |-> image, prompt |-> prompt]

\* the empty DetectionResult of lines 119-125
NoDetections == [image |-> None, prompt |-> None]

\* the plan texts a request sends, one detect call each
PlanTextChoices == {<<"car">>, <<"car", " red car ">>, <<"", "vase">>}

\* position of a thread: the call it is at and the local variable state
ThreadResults(results, state) == [results |-> results, state |-> state]

\* the prompt of the call thread t is at
CurrentPrompt(t) == args[t].prompts[Len(ret[t].results) + 1]

\* the steps of detect that use the processor
ProcessorSteps == {"set_image", "reset_all_prompts", "set_text_prompt"}

\* the positions inside the with block
LockedSteps == ProcessorSteps \cup {"locked", "read", "return"}

InitThreads ==
    /\ NoRequest
    /\ NoDetectCall
    /\ pc = [t \in Threads |-> "detect"]
    /\ args \in [Threads -> {[image |-> ImageOf(t), prompts |-> prompts] :
                               t \in Threads, prompts \in PlanTextChoices}]
    /\ \A t \in Threads : args[t].image = ImageOf(t)
    /\ ret = [t \in Threads |-> ThreadResults(<<>>, None)]

\* variant: the with statement does not wait
CanAcquire_always(lock) == TRUE

\* threading.Lock: acquire goes through only when nobody holds the lock
CanAcquire(lock) == lock = Unlocked

\* line 89: with self._lock
Acquire(t) ==
    /\ pc[t] = "detect"
    /\ CanAcquire(_lock)
    /\ _lock' = HeldBy(t)
    /\ pc' = [pc EXCEPT ![t] = "locked"]
    /\ ret' = [ret EXCEPT ![t].state = None]
    /\ UNCHANGED <<detect_vars, observed, box, bbox, args, processor>>

\* lines 95-98: a blank prompt is skipped, the processor is not used
SkipBlank(t) ==
    /\ pc[t] = "locked"
    /\ StrStrip(CurrentPrompt(t)) = ""
    /\ pc' = [pc EXCEPT ![t] = "return"]
    /\ UNCHANGED <<lock_vars, detect_vars, observed, box, bbox, args, ret>>

\* line 100: processor.set_image(image)
SetImage(t) ==
    /\ pc[t] = "locked"
    /\ StrStrip(CurrentPrompt(t)) # ""
    /\ processor' = [processor EXCEPT !.image = Some(args[t].image)]
    /\ pc' = [pc EXCEPT ![t] = "reset_all_prompts"]
    /\ UNCHANGED <<_lock, detect_vars, observed, box, bbox, args, ret>>

\* line 101: processor.reset_all_prompts(state)
ResetAllPrompts(t) ==
    /\ pc[t] = "reset_all_prompts"
    /\ processor' = [processor EXCEPT !.prompt = None, !.output = None]
    /\ pc' = [pc EXCEPT ![t] = "set_text_prompt"]
    /\ UNCHANGED <<_lock, detect_vars, observed, box, bbox, args, ret>>

\* line 102: processor.set_text_prompt(prompt, state) computes the
\* detections from the image the processor holds
SetTextPrompt(t) ==
    /\ pc[t] = "set_text_prompt"
    /\ LET prompt == StrStrip(CurrentPrompt(t))
       IN processor' = [processor EXCEPT
                           !.prompt = Some(prompt),
                           !.output = Some(Detections(processor.image, prompt))]
    /\ pc' = [pc EXCEPT ![t] = "read"]
    /\ UNCHANGED <<_lock, detect_vars, observed, box, bbox, args, ret>>

\* lines 104-117: boxes, scores and masks are read from the state
ReadState(t) ==
    /\ pc[t] = "read"
    /\ ret' = [ret EXCEPT ![t].state = processor.output]
    /\ pc' = [pc EXCEPT ![t] = "return"]
    /\ UNCHANGED <<lock_vars, detect_vars, observed, box, bbox, args>>

\* lines 119-139: the result is returned and the with block left; the loop
\* of _run_tiered_detection goes on with the next plan
Return(t) ==
    /\ pc[t] = "return"
    /\ LET result == IF ret[t].state = None THEN NoDetections
                     ELSE ret[t].state.value
           results == Append(ret[t].results, result)
       IN /\ ret' = [ret EXCEPT ![t] = ThreadResults(results, None)]
          /\ pc' = [pc EXCEPT ![t] = IF Len(results) = Len(args[t].prompts)
                                     THEN "done" ELSE "detect"]
    /\ _lock' = Unlocked
    /\ UNCHANGED <<detect_vars, observed, box, bbox, args, processor>>

\* lines 141-143: a processor step raises; the with block releases the lock
\* and detect raises RuntimeError, which ends the request of the thread
ProcessorRaises(t) ==
    /\ \/ pc[t] \in ProcessorSteps
       \/ pc[t] = "locked" /\ StrStrip(CurrentPrompt(t)) # ""
    /\ _lock' = Unlocked
    /\ pc' = [pc EXCEPT ![t] = "raised"]
    /\ UNCHANGED <<detect_vars, observed, box, bbox, args, ret, processor>>

NextThreads ==
    \E t \in Threads :
       \/ Acquire(t)
       \/ SkipBlank(t)
       \/ SetImage(t)
       \/ ResetAllPrompts(t)
       \/ SetTextPrompt(t)
       \/ ReadState(t)
       \/ Return(t)
       \/ ProcessorRaises(t)

SpecThreads == InitThreads /\ [][NextThreads]_vars

\* what a call on an image with a prompt returns when nothing interferes
OwnResult(image, prompt) ==
    IF StrStrip(prompt) = "" THEN NoDetections
    ELSE Detections(Some(image), StrStrip(prompt))

\* C30: the processor steps of one detect call are never interleaved with
\* those of another call (at most one thread is inside the with block, and
\* it holds the lock), and every result returned to a call derives from that
\* call's own image and prompt.
C30_CallsNeverInterleave ==
    /\ \A t1, t2 \in Threads :
          (pc[t1] \in LockedSteps /\ pc[t2] \in LockedSteps) => t1 = t2
    /\ \A t \in Threads : pc[t] \in LockedSteps => _lock = HeldBy(t)
    /\ \A t \in Threads :
          /\ \A k \in DOMAIN ret[t].results :
                ret[t].results[k] = OwnResult(args[t].image, args[t].prompts[k])
          /\ ret[t].state # None
                => ret[t].state
                      = Some(OwnResult(args[t].image, CurrentPrompt(t)))

\* thread 1 is between its two calls and waits while thread 2, which came
\* after thread 1's first call, is inside a call of its own
C30_Witness ==
    /\ pc[1] = "detect"
    /\ Len(ret[1].results) = 1
    /\ ret[1].results[1] = Detections(Some(ImageOf(1)), "car")
    /\ pc[2] = "read"
    /\ _lock = HeldBy(2)
    /\ processor.output = Some(Detections(Some(ImageOf(2)), "red car"))

====
